---- MODULE Spec2Model ----
(***************************************************************************)
(* osu-link: migration of an osu!stable library (osu!.db + Songs/) into an *)
(* osu!lazer client.db and its content-addressed files/ store.             *)
(*                                                                         *)
(* The model follows src/src/main.rs (main, get_beatmaps),                 *)
(* src/src/processors.rs (BeatmapProcessor, HashProcessor) and             *)
(* src/src/database.rs (insert_beatmaps, insert_hashes and the per-table   *)
(* insert functions).                                                      *)
(***************************************************************************)
EXTENDS Integers, Sequences, FiniteSets, TLC

VARIABLES
    stable,        \* Db::parse(osu!.db).beatmaps: the legacy entry list
    db,            \* committed content of client.db
    db_before,     \* client.db as it was when the run started (history)
    fs_before,     \* [links, dirs] as they were when the run started (history)
    tx,            \* content seen inside the open transaction
    links,         \* objects under <lazer>/files, by path
    dirs,          \* directories under <lazer>/files
    pc,            \* position of the main thread
    beatmaps,      \* result of get_beatmaps
    bm_todo,       \* positions of the tagged list no worker has taken yet
    bm_chan,       \* channel BeatmapProcessed: pool -> insert_beatmaps
    bm_open,       \* some Sender<BeatmapProcessed> is still alive
    req_chan,      \* channel HashRequest: insert_beatmaps -> hash pool
    req_open,      \* the Sender<HashRequest> is still alive
    hash_chan,     \* channel HashProcessed: hash pool -> insert_hashes
    hash_open,     \* some Sender<HashProcessed> is still alive
    joined,        \* threads main has joined
    commits,       \* number of successful transaction.commit() calls
    log,           \* errors printed, as a set of <<stage, item>>
    target_family, \* cfg(target_family) of the build
    rng,           \* number of placeholder hashes drawn from thread_rng()
    faults,        \* number of per-item failures that have occurred in the run
    sel_runs       \* history of get_beatmaps calls: [out, target]

vars == <<stable, db, db_before, fs_before, tx, links, dirs, pc, beatmaps, bm_todo,
          bm_chan, bm_open, req_chan, req_open, hash_chan, hash_open,
          joined, commits, log, target_family, rng, faults, sel_runs>>

(***************************************************************************)
(* Bounds of the model.                                                    *)
(***************************************************************************)
\* longest legacy list enumerated for the Selection Filter
MaxLegacy == 3
\* largest external entry id enumerated for the Selection Filter
MaxEntryId == 2
\* most get_beatmaps calls followed for the Selection Filter
MaxSelRuns == 2
\* most per-item failures (decode, insert, hash) injected into one run;
\* failures that end the run are not limited
MaxFaults == 1

(***************************************************************************)
(* Program constants.  TLC's integers are 32 bit signed, so u32::MAX is    *)
(* modelled by the largest value TLC holds; only equality with it matters. *)
(***************************************************************************)
U32_MAX == 2147483647

\* The date arithmetic is done in u64 and checked against i64; the model
\* keeps the arithmetic and scales the width to 16 bits: 1 model tick stands
\* for 10^14 ticks of the legacy clock.
U64_MODULUS == 65536
I64_MAX == 32767
WIN_TO_UNIX_EPOCH == 6213
NANOS_PER_TICK == 100

\* Option<T> and nullable columns: None is SQL NULL
None == << >>
Some(v) == <<v>>

\* helpers on sequences
Range(s) == {s[i] : i \in DOMAIN s}
SeqOfAtMost(S, n) == UNION {[1..k -> S] : k \in 0..n}
RemoveAt(s, i) == SubSeq(s, 1, i - 1) \o SubSeq(s, i + 1, Len(s))
Last(s) == s[Len(s)]

(***************************************************************************)
(* The legacy library used by the pipeline runs: osu!.db entries, the      *)
(* Songs/ folders and the descriptor each entry's .osu file parses to.     *)
(***************************************************************************)
DbBeatmap(id, set, folder, file, status, mdate) ==
    [beatmap_id |-> id, beatmap_set_id |-> set, folder_name |-> folder,
     beatmap_file_name |-> file, ranked_status |-> status,
     modification_date |-> mdate, hash |-> "md5-" \o file]

\* osu!.db order is not id order: get_beatmaps sorts.  Group 20 is a second
\* download of group 10's Easy difficulty, so c.osu has the bytes of a.osu.
Library ==
    << DbBeatmap(3, 20, "f20", "c.osu", 7, 6370),
       DbBeatmap(2, 10, "f10", "b.osu", 4, 6365),
       DbBeatmap(1, 10, "f10", "a.osu", 4, 6364) >>

\* what WalkDir yields under Songs/<folder>: the root, sub-directories, files
DirEntry(rel, kind, sha) == [rel |-> rel, kind |-> kind, sha256 |-> sha]

Songs(folder) ==
    CASE folder = "f10" -> << DirEntry("", "dir", ""),
                              DirEntry("a.osu", "file", "a1f"),
                              DirEntry("sb", "dir", ""),
                              DirEntry("b.osu", "file", "a1e") >>
      [] folder = "f20" -> << DirEntry("", "dir", ""),
                              DirEntry("c.osu", "file", "a1f"),
                              DirEntry("sb", "dir", ""),
                              DirEntry("sb/c.osu", "file", "b2c") >>
      [] OTHER -> << >>

Event(kind, filename) == [kind |-> kind, filename |-> filename]

\* Beatmap::parse of one descriptor file
Beatmap(id, version, artist, title, tags, events) ==
    [beatmap_id |-> id, difficulty_name |-> version, difficulty |-> "cs4-" \o version,
     artist |-> artist, artist_unicode |-> artist, audio_filename |-> "audio.mp3",
     creator |-> "mapper", preview_time |-> 1000, source |-> "", tags |-> tags,
     title |-> title, title_unicode |-> title, events |-> events]

ParsedFile(file) ==
    CASE file \in {"a.osu", "c.osu"} ->
             Beatmap(1, "Easy", "artist", "song", <<"tv", "size">>,
                     << Event("Other", "x"), Event("Background", "bg.png") >>)
      [] OTHER ->
             Beatmap(2, "Hard", "artist", "song", <<"tv", "size">>,
                     << Event("Other", "x"), Event("Background", "bg.png") >>)

\* online.db, table osu_beatmaps: beatmap_id -> user_id (entry 3 is not in it)
OnlineUserId(beatmap_id) ==
    CASE beatmap_id \in {1, 2} -> Some(77)
      [] OTHER -> None

(***************************************************************************)
(* client.db: each table is the sequence of its rows, the row ID being the *)
(* position (rows are never deleted, so IDs are handed out in order).      *)
(***************************************************************************)
EmptyDb ==
    [BeatmapDifficulty |-> << >>, BeatmapMetadata |-> << >>, BeatmapSetInfo |-> << >>,
     BeatmapInfo |-> << >>, FileInfo |-> << >>, BeatmapSetFileInfo |-> << >>]

\* SQL comparison "a = b" as a WHERE condition: never true when a side is NULL
SqlEq(a, b) == a # None /\ b # None /\ a = b

\* IDs of the rows of a table that satisfy P
RowsWhere(table, P(_)) == {i \in DOMAIN table : P(table[i])}
Min(S) == CHOOSE x \in S : \A y \in S : x <= y

(***************************************************************************)
(* Selection Filter: get_beatmaps.                                         *)
(***************************************************************************)
\* SELECT OnlineBeatmapID FROM BeatmapInfo WHERE OnlineBeatmapID NOT NULL
LazerBeatmapIds(d) ==
    {d.BeatmapInfo[i].OnlineBeatmapID[1] : i \in
        RowsWhere(d.BeatmapInfo, LAMBDA r : r.OnlineBeatmapID # None)}

\* the HashSet stable_beatmaps after the removal loop
\* (variant without the removal loop)
RemainingIdsAll(list, lazer) == {list[i].beatmap_id : i \in DOMAIN list}
RemainingIds(list, lazer) == {list[i].beatmap_id : i \in DOMAIN list} \ lazer

\* the filter closure of get_beatmaps
KeepUnsubmitted(bm, remaining) ==
    /\ bm.beatmap_id \in remaining
    /\ bm.beatmap_set_id # U32_MAX
Keep(bm, remaining) ==
    /\ bm.beatmap_id \in remaining
    /\ bm.beatmap_id # 0
    /\ bm.beatmap_set_id # U32_MAX

IsSortedById(s) == \A i, j \in DOMAIN s : i < j => s[i].beatmap_id <= s[j].beatmap_id

\* sort_unstable_by on beatmap_id: any arrangement of the elements that is
\* ordered by id (elements of equal id may end in either order)
SortUnstableById(s) ==
    LET n == Len(s)
        perms == {p \in [1..n -> 1..n] : \A i, j \in 1..n : p[i] = p[j] => i = j}
    IN {t \in {[i \in 1..n |-> s[p[i]]] : p \in perms} : IsSortedById(t)}

\* the lists get_beatmaps may return
get_beatmaps(list, d) ==
    LET remaining == RemainingIds(list, LazerBeatmapIds(d))
        kept == SelectSeq(list, LAMBDA bm : Keep(bm, remaining))
    IN SortUnstableById(kept)

(***************************************************************************)
(* Entry Processing Pool: BeatmapProcessor::start tags each entry.         *)
(***************************************************************************)
\* the map closure with processed_sets: true for the first entry of a group
\* (first a variant that tags every entry)
IsMainAlways(list, i) == TRUE
\* (and a variant that tags the last entry of a group)
IsMainLast(list, i) ==
    \A j \in (i + 1)..Len(list) : list[j].beatmap_set_id # list[i].beatmap_set_id
IsMain(list, i) == \A j \in 1..(i - 1) : list[j].beatmap_set_id # list[i].beatmap_set_id

Tagged(list) == [i \in DOMAIN list |-> [db_beatmap |-> list[i], is_main |-> IsMain(list, i)]]


(***************************************************************************)
(* Metadata Inserter: the per-table functions of database.rs.  Each takes  *)
(* the transaction content t and returns [st, tx, id]: st is "ok", "err"   *)
(* (the Result is Err) or "panic"; tx is the content afterwards.  `fail`   *)
(* says whether the function's INSERT statement fails in SQLite.           *)
(***************************************************************************)
Ok(t, id) == [st |-> "ok", tx |-> t, id |-> id]
Err(t) == [st |-> "err", tx |-> t, id |-> 0]
Panic(t) == [st |-> "panic", tx |-> t, id |-> 0]

Append1(t, table, row) == [t EXCEPT ![table] = Append(@, row)]

insert_beatmap_difficulty(t, beatmap, fail) ==
    IF fail THEN Err(t)
    ELSE Ok(Append1(t, "BeatmapDifficulty", [Difficulty |-> beatmap.difficulty]),
            Len(t.BeatmapDifficulty) + 1)

\* tags.join(" ")
RECURSIVE Join(_)
Join(words) ==
    IF Len(words) = 0 THEN ""
    ELSE IF Len(words) = 1 THEN words[1]
    ELSE words[1] \o " " \o Join(Tail(words))

\* the loop over beatmap.events: it stops at the first Background or Video event
FirstMedia(events) ==
    LET hits == {i \in DOMAIN events : events[i].kind \in {"Background", "Video"}}
    IN IF hits = {} THEN [background |-> None, video |-> None]
       ELSE LET e == events[Min(hits)]
            IN IF e.kind = "Background"
               THEN [background |-> Some(e.filename), video |-> None]
               ELSE [background |-> None, video |-> Some(e.filename)]

UnwrapOr(opt, dflt) == IF opt = None THEN dflt ELSE opt[1]

MetadataParams(beatmap) ==
    LET media == FirstMedia(beatmap.events)
    IN [Artist |-> beatmap.artist, ArtistUnicode |-> beatmap.artist_unicode,
        AudioFile |-> beatmap.audio_filename, Author |-> beatmap.creator,
        BackgroundFile |-> media.background, PreviewTime |-> beatmap.preview_time,
        Source |-> beatmap.source, Tags |-> Join(beatmap.tags),
        Title |-> beatmap.title, TitleUnicode |-> beatmap.title_unicode,
        VideoFile |-> media.video,
        AuthorID |-> UnwrapOr(OnlineUserId(beatmap.beatmap_id), 0)]

\* the WHERE clause of the lookup: twelve "column = ?" terms
MetadataMatches(row, p) ==
    /\ row.Artist = p.Artist
    /\ row.ArtistUnicode = p.ArtistUnicode
    /\ row.AudioFile = p.AudioFile
    /\ row.Author = p.Author
    /\ SqlEq(row.BackgroundFile, p.BackgroundFile)
    /\ row.PreviewTime = p.PreviewTime
    /\ row.Source = p.Source
    /\ row.Tags = p.Tags
    /\ row.Title = p.Title
    /\ row.TitleUnicode = p.TitleUnicode
    /\ SqlEq(row.VideoFile, p.VideoFile)
    /\ row.AuthorID = p.AuthorID

insert_beatmap_metadata(t, beatmap, fail) ==
    LET p == MetadataParams(beatmap)
        found == RowsWhere(t.BeatmapMetadata, LAMBDA r : MetadataMatches(r, p))
    IN IF found # {} THEN Ok(t, Min(found))
       ELSE IF fail THEN Err(t)
       ELSE Ok(Append1(t, "BeatmapMetadata", p), Len(t.BeatmapMetadata) + 1)

\* (modification_date - WIN_TO_UNIX_EPOCH) * 100 in u64, then try_into i64.
\* `checks` is the build's overflow-checks setting: on, u64 overflow panics;
\* off, it wraps.
WinTicksToUnixNanos(mdate, checks) ==
    LET diff == mdate - WIN_TO_UNIX_EPOCH
        sub == diff % U64_MODULUS
        prod == sub * NANOS_PER_TICK
        mul == prod % U64_MODULUS
    IN IF checks /\ (diff < 0 \/ prod >= U64_MODULUS) THEN [st |-> "panic", v |-> 0]
       ELSE IF mul > I64_MAX THEN [st |-> "err", v |-> 0]
       ELSE [st |-> "ok", v |-> mul]

SetRow(db_beatmap, metadata_id, hash, date) ==
    [DeletePending |-> FALSE, Hash |-> hash, MetadataID |-> metadata_id,
     OnlineBeatmapSetID |-> Some(db_beatmap.beatmap_set_id), Protected |-> FALSE,
     Status |-> db_beatmap.ranked_status - 3, DateAdded |-> date]

\* the condition under which the upsert statement is run
\* (variant that ignores both the lookup and force)
ShouldUpsertAlways(found, force) == TRUE
ShouldUpsert(found, force) == found = {} \/ force

\* (first a variant that always returns the rowid of a new row)
insert_beatmapset_info_new_rowid(t, db_beatmap, metadata_id, force, random_hash, checks, fail) ==
    LET found == RowsWhere(t.BeatmapSetInfo,
                     LAMBDA r : SqlEq(r.OnlineBeatmapSetID, Some(db_beatmap.beatmap_set_id)))
        date == WinTicksToUnixNanos(db_beatmap.modification_date, checks)
        row == SetRow(db_beatmap, metadata_id, random_hash, date.v)
    IN IF ShouldUpsert(found, force)
       THEN IF date.st = "panic" THEN Panic(t)
            ELSE IF date.st = "err" \/ fail THEN Err(t)
            ELSE IF found # {}
                 THEN Ok([t EXCEPT !.BeatmapSetInfo[Min(found)] = row],
                         Len(t.BeatmapSetInfo) + 1)
                 ELSE Ok(Append1(t, "BeatmapSetInfo", row), Len(t.BeatmapSetInfo) + 1)
       ELSE Ok(t, Len(t.BeatmapSetInfo) + 1)
\* (a variant whose forced statement is a plain INSERT on a table without the
\* unique index: a second row for the group instead of an update in place)
insert_beatmapset_info_plain_insert(t, db_beatmap, metadata_id, force, random_hash, checks, fail) ==
    LET found == RowsWhere(t.BeatmapSetInfo,
                     LAMBDA r : SqlEq(r.OnlineBeatmapSetID, Some(db_beatmap.beatmap_set_id)))
        date == WinTicksToUnixNanos(db_beatmap.modification_date, checks)
        row == SetRow(db_beatmap, metadata_id, random_hash, date.v)
    IN IF ShouldUpsert(found, force)
       THEN IF date.st = "panic" THEN Panic(t)
            ELSE IF date.st = "err" \/ fail THEN Err(t)
            ELSE IF found # {}
                 THEN Ok(Append1(t, "BeatmapSetInfo", row), Min(found))
                 ELSE Ok(Append1(t, "BeatmapSetInfo", row), Len(t.BeatmapSetInfo) + 1)
       ELSE Ok(t, Min(found))

insert_beatmapset_info(t, db_beatmap, metadata_id, force, random_hash, checks, fail) ==
    LET found == RowsWhere(t.BeatmapSetInfo,
                     LAMBDA r : SqlEq(r.OnlineBeatmapSetID, Some(db_beatmap.beatmap_set_id)))
        date == WinTicksToUnixNanos(db_beatmap.modification_date, checks)
        row == SetRow(db_beatmap, metadata_id, random_hash, date.v)
    IN IF ShouldUpsert(found, force)
       THEN IF date.st = "panic" THEN Panic(t)
            ELSE IF date.st = "err" \/ fail THEN Err(t)
            ELSE IF found # {}
                 \* ON CONFLICT (OnlineBeatmapSetID) DO UPDATE: same row, same ID
                 THEN Ok([t EXCEPT !.BeatmapSetInfo[Min(found)] = row], Min(found))
                 ELSE Ok(Append1(t, "BeatmapSetInfo", row), Len(t.BeatmapSetInfo) + 1)
       ELSE Ok(t, Min(found))

insert_beatmap_info(t, beatmap, db_beatmap, beatmapset_info_id, difficulty_id, metadata_id, fail) ==
    IF fail THEN Err(t)
    ELSE Ok(Append1(t, "BeatmapInfo",
                [BaseDifficultyID |-> difficulty_id,
                 BeatmapSetInfoID |-> beatmapset_info_id,
                 MD5Hash |-> db_beatmap.hash,
                 MetadataID |-> metadata_id,
                 OnlineBeatmapID |-> Some(db_beatmap.beatmap_id),
                 Path |-> db_beatmap.beatmap_file_name,
                 Version |-> beatmap.difficulty_name,
                 Status |-> db_beatmap.ranked_status - 3,
                 Hash |-> None]), 0)

\* insert_beatmap: the four steps, each returning early on Err.  failAt is the
\* step whose statement fails (0: none); the returned id is beatmapset_info_id.
insert_beatmap(t, ctx, random_hash, checks, failAt) ==
    LET d == insert_beatmap_difficulty(t, ctx.beatmap, failAt = 1)
        m == insert_beatmap_metadata(d.tx, ctx.beatmap, failAt = 2)
        s == insert_beatmapset_info(m.tx, ctx.db_beatmap, m.id, ctx.is_main,
                                    random_hash, checks, failAt = 3)
        b == insert_beatmap_info(s.tx, ctx.beatmap, ctx.db_beatmap, s.id, d.id, m.id,
                                 failAt = 4)
    IN IF d.st # "ok" THEN d
       ELSE IF m.st # "ok" THEN m
       ELSE IF s.st # "ok" THEN s
       ELSE IF b.st # "ok" THEN b
       ELSE Ok(b.tx, s.id)


(***************************************************************************)
(* Content Store Inserter: one iteration of the loop of insert_hashes.     *)
(***************************************************************************)
Folders == {"f10", "f20"}
FullPath(folder, rel) == "Songs/" \o folder \o "/" \o rel

\* the regular files of the legacy library: absolute path and content digest
StableFiles ==
    UNION {{[path |-> FullPath(f, Songs(f)[i].rel), sha256 |-> Songs(f)[i].sha256] :
                i \in {j \in DOMAIN Songs(f) : Songs(f)[j].kind = "file"}} : f \in Folders}

\* HashProcessor::hash_file with FAKE_HASH = false: lowercase hex SHA-256 of
\* the file's bytes (files of equal content have equal digests)
hash_file(full_path) == (CHOOSE f \in StableFiles : f.path = full_path).sha256

\* <lazer>/files/<hash[..1]>/<hash[..2]>
LinkDir(hash) == "files/" \o SubSeq(hash, 1, 1) \o "/" \o SubSeq(hash, 1, 2)
LinkPath(hash) == LinkDir(hash) \o "/" \o hash

\* std::fs::create_dir_all: the directory and its missing ancestors
create_dir_all(ds, hash) ==
    ds \cup {"files", "files/" \o SubSeq(hash, 1, 1), LinkDir(hash)}

\* the file system under <lazer>/files: a set of [path, kind, target]
ObjectsAt(ls, path) == {o \in ls : o.path = path}
\* std::fs::read_link(path).is_ok(): the object is a symbolic link
read_link_ok(ls, path) == \E o \in ObjectsAt(ls, path) : o.kind = "symlink"
\* Path::exists follows symbolic links: false for a link whose target is gone
path_exists(ls, path) ==
    \E o \in ObjectsAt(ls, path) :
        o.kind = "file" \/ (\E f \in StableFiles : f.path = o.target)

\* whether insert_hashes attempts to create the link
\* (first a variant of the unix branch without read_link)
ShouldLinkNoReadLink(family, ls, path) == ~path_exists(ls, path)
ShouldLink(family, ls, path) ==
    IF family = "unix"
    THEN ~read_link_ok(ls, path) /\ ~path_exists(ls, path)
    ELSE ~path_exists(ls, path)

\* symlink(2) / CreateHardLink: fails when something is at the path already.
\* A hard link is one more name of a regular file.
make_link(family, ls, target, path) ==
    IF ObjectsAt(ls, path) # {} THEN [ok |-> FALSE, links |-> ls]
    ELSE [ok |-> TRUE,
          links |-> ls \cup {[path |-> path, target |-> target,
                              kind |-> IF family = "unix" THEN "symlink" ELSE "file"]}]

\* the database statements of one iteration, in order; failAt is the
\* statement that fails (0: none).  st is "ok" or "err".
FileInfoIds(t, hash) == RowsWhere(t.FileInfo, LAMBDA r : r.Hash = hash)

\* INSERT OR IGNORE INTO FileInfo (Hash, ReferenceCount) VALUES (?, 0)
\* (first a variant that creates the row with ReferenceCount 1)
InsertOrIgnoreFileInfoCountOne(t, hash) ==
    IF FileInfoIds(t, hash) # {} THEN t
    ELSE Append1(t, "FileInfo", [Hash |-> hash, ReferenceCount |-> 1])
InsertOrIgnoreFileInfo(t, hash) ==
    IF FileInfoIds(t, hash) # {} THEN t
    ELSE Append1(t, "FileInfo", [Hash |-> hash, ReferenceCount |-> 0])

\* UPDATE FileInfo SET ReferenceCount = ReferenceCount + 1 WHERE Hash = ?
\* (first a variant that adds 2)
IncrementBy2(t, hash) ==
    [t EXCEPT !.FileInfo = [i \in DOMAIN @ |->
        IF @[i].Hash = hash THEN [@[i] EXCEPT !.ReferenceCount = @ + 2] ELSE @[i]]]
IncrementReferenceCount(t, hash) ==
    [t EXCEPT !.FileInfo = [i \in DOMAIN @ |->
        IF @[i].Hash = hash THEN [@[i] EXCEPT !.ReferenceCount = @ + 1] ELSE @[i]]]

InsertMapping(t, request, file_id) ==
    Append1(t, "BeatmapSetFileInfo",
            [BeatmapSetInfoID |-> request.beatmapset_info_id, FileInfoID |-> file_id,
             Filename |-> request.stripped_path])

\* (first a variant of the statement below without its WHERE clause)
UpdateBeatmapHashEveryRow(t, hash, beatmap_id) ==
    [t EXCEPT !.BeatmapInfo = [i \in DOMAIN @ |-> [@[i] EXCEPT !.Hash = Some(hash)]]]
\* UPDATE BeatmapInfo SET Hash = ? WHERE OnlineBeatmapID = ?
UpdateBeatmapHash(t, hash, beatmap_id) ==
    [t EXCEPT !.BeatmapInfo = [i \in DOMAIN @ |->
        IF SqlEq(@[i].OnlineBeatmapID, Some(beatmap_id))
        THEN [@[i] EXCEPT !.Hash = Some(hash)] ELSE @[i]]]

\* (first a variant of the comparison below that looks at the file's name
\* only, whatever directory of the walk it is in)
EndsWith(str, suffix) ==
    Len(str) >= Len(suffix) /\ SubSeq(str, Len(str) - Len(suffix) + 1, Len(str)) = suffix
IsDescriptorAnyDepth(request) == EndsWith(request.stripped_path, request.file_name)
\* hash.request.stripped_path.to_str().unwrap() == hash.request.file_name
IsDescriptor(request) == request.stripped_path = request.file_name

insert_hash_db(t, h, failAt) ==
    LET t1 == InsertOrIgnoreFileInfo(t, h.hash)
        t2 == IncrementReferenceCount(t1, h.hash)
        ids == FileInfoIds(t2, h.hash)
        t4 == InsertMapping(t2, h.request, Min(ids))
        t5 == IF IsDescriptor(h.request)
              THEN UpdateBeatmapHash(t4, h.hash, h.request.beatmap_id) ELSE t4
    IN CASE failAt = 1 -> [st |-> "err", tx |-> t]
         [] failAt = 2 -> [st |-> "err", tx |-> t1]
         [] failAt = 3 \/ ids = {} -> [st |-> "err", tx |-> t2]
         [] failAt = 4 -> [st |-> "err", tx |-> t2]
         [] failAt = 5 /\ IsDescriptor(h.request) -> [st |-> "err", tx |-> t4]
         [] OTHER -> [st |-> "ok", tx |-> t5]

\* the file-system steps of one iteration: create_dir_all (step 6), then the
\* link (step 7) when nothing is found at the path
insert_hash_fs(family, ls, ds, h, failAt) ==
    LET path == LinkPath(h.hash)
        ds1 == create_dir_all(ds, h.hash)
        made == make_link(family, ls, h.request.full_path, path)
    IN IF failAt = 6 THEN [st |-> "err", at |-> "create_dir_all", links |-> ls, dirs |-> ds]
       ELSE IF ~ShouldLink(family, ls, path)
            THEN [st |-> "ok", at |-> "", links |-> ls, dirs |-> ds1]
       ELSE IF failAt = 7 \/ ~made.ok
            THEN [st |-> "err", at |-> "link", links |-> ls, dirs |-> ds1]
       ELSE [st |-> "ok", at |-> "", links |-> made.links, dirs |-> ds1]


(***************************************************************************)
(* The run: main, the two pools and the two inserter stages.               *)
(***************************************************************************)
\* thread_rng().fill for the set's placeholder hash: 32 random bytes, so
\* successive draws are modelled as successive fresh values
RandomHash(n) == "r" \o ToString(n)

\* which statement of insert_beatmap / step of an insert_hashes iteration fails
BeatmapFailPoints == 0..4
HashFailPoints == 0..7

\* rusqlite rolls an uncommitted Transaction back when it is dropped
\* (first a variant in which the writes survive the drop)
DropTransactionKeep(d, t) == t
DropTransaction(d, t) == d

Running == pc \in {"insert_beatmaps", "insert_hashes", "join_beatmap", "join_hash", "commit"}

\* never written by a run
env == <<stable, db_before, fs_before, target_family>>

\* main returns Err (or panics): the transaction is dropped and the process
\* ends, and with it the threads and the channels
Abort(why) ==
    /\ pc' = "aborted"
    /\ db' = DropTransaction(db, tx)
    /\ tx' = db'
    /\ log' = log \cup {<<"fatal", why>>}
    /\ bm_todo' = {}
    /\ bm_chan' = << >>
    /\ req_chan' = << >>
    /\ hash_chan' = << >>

\* States a target can be in when a run starts, each produced by this tool
\* (and by lazer's own importer for the local beatmap of the third):
\*  1  a fresh client.db;
\*  2  an earlier run migrated entry 1 of group 10 when the folder held a.osu
\*     only (b.osu was downloaded since);
\*  3  an earlier run migrated entry 9 of group 30, whose file had the bytes of
\*     a.osu and whose folder has been deleted from Songs/ since (on unix the
\*     link now dangles); lazer also holds a beatmap without online id.
PriorRun(family, db_beatmap, with_local) ==
    LET ctx == [db_beatmap |-> db_beatmap,
                beatmap |-> ParsedFile(db_beatmap.beatmap_file_name), is_main |-> TRUE]
        t1 == insert_beatmap(EmptyDb, ctx, "r0", FALSE, 0).tx
        h == [request |-> [beatmap_id |-> db_beatmap.beatmap_id,
                           beatmapset_id |-> db_beatmap.beatmap_set_id,
                           folder_name |-> db_beatmap.folder_name,
                           file_name |-> db_beatmap.beatmap_file_name,
                           beatmapset_info_id |-> 1,
                           stripped_path |-> db_beatmap.beatmap_file_name,
                           full_path |-> FullPath(db_beatmap.folder_name,
                                                  db_beatmap.beatmap_file_name)],
              hash |-> "a1f"]
        t2 == insert_hash_db(t1, h, 0).tx
        t3 == IF with_local
              THEN Append1(t2, "BeatmapInfo",
                       [t2.BeatmapInfo[1] EXCEPT !.OnlineBeatmapID = None,
                                                 !.Path = "local.osu", !.Hash = None])
              ELSE t2
        f == insert_hash_fs(family, {}, {"files"}, h, 0)
    IN [db |-> t3, links |-> f.links, dirs |-> f.dirs]

PriorStates(family) ==
    { [db |-> EmptyDb, links |-> {}, dirs |-> {"files"}],
      PriorRun(family, Library[3], FALSE),
      PriorRun(family, DbBeatmap(9, 30, "f30", "x.osu", 4, 6300), TRUE) }

Init ==
    /\ stable = Library
    /\ target_family \in {"unix", "windows"}
    /\ \E prior \in PriorStates(target_family) :
        /\ db = prior.db
        /\ links = prior.links
        /\ dirs = prior.dirs
    /\ db_before = db
    /\ fs_before = [links |-> links, dirs |-> dirs]
    /\ tx = db
    /\ pc = "get_beatmaps"
    /\ beatmaps = << >>
    /\ bm_todo = {}
    /\ bm_chan = << >>
    /\ bm_open = TRUE
    /\ req_chan = << >>
    /\ req_open = TRUE
    /\ hash_chan = << >>
    /\ hash_open = TRUE
    /\ joined = {}
    /\ commits = 0
    /\ log = {}
    /\ rng = 0
    /\ faults = 0
    /\ sel_runs = << >>

\* main.rs 346: get_beatmaps succeeds
GetBeatmaps ==
    /\ pc = "get_beatmaps"
    /\ \E sel \in get_beatmaps(stable, db) :
        /\ beatmaps' = sel
        /\ sel_runs' = Append(sel_runs, [out |-> sel, target |-> db])
    /\ pc' = "spawn"
    /\ UNCHANGED <<env, db, tx, links, dirs, bm_todo, bm_chan, bm_open, req_chan,
                   req_open, hash_chan, hash_open, joined, commits, log, rng, faults>>

\* main.rs 346: opening or parsing osu!.db, or the query, fails
GetBeatmapsFail ==
    /\ pc = "get_beatmaps"
    /\ Abort("get_beatmaps")
    /\ UNCHANGED <<env, links, dirs, beatmaps, bm_open, req_open, hash_open, joined,
                   commits, rng, faults, sel_runs>>

\* main.rs 358-371: channels, the two threads, the transaction
StartPipeline ==
    /\ pc = "spawn"
    /\ bm_todo' = DOMAIN beatmaps
    /\ tx' = db
    /\ pc' = "insert_beatmaps"
    /\ UNCHANGED <<env, db, links, dirs, beatmaps, bm_chan, bm_open, req_chan,
                   req_open, hash_chan, hash_open, joined, commits, log, rng, faults, sel_runs>>

\* (first a variant in which an Err of process() ends the pool's loop)
BeatmapProcessErrStops(i, ok) ==
    /\ Running
    /\ i \in bm_todo
    /\ ok \/ faults < MaxFaults
    /\ faults' = IF ok THEN faults ELSE faults + 1
    /\ LET item == Tagged(beatmaps)[i]
       IN IF ok
          THEN /\ bm_chan' = Append(bm_chan,
                      [db_beatmap |-> item.db_beatmap,
                       beatmap |-> ParsedFile(item.db_beatmap.beatmap_file_name),
                       is_main |-> item.is_main])
               /\ bm_todo' = bm_todo \ {i}
               /\ log' = log
          ELSE /\ bm_chan' = bm_chan
               /\ bm_todo' = {}
               /\ log' = log \cup {<<"process", item.db_beatmap.beatmap_id>>}
    /\ UNCHANGED <<env, db, tx, links, dirs, pc, beatmaps, bm_open, req_chan,
                   req_open, hash_chan, hash_open, joined, commits, rng, sel_runs>>

\* (a variant whose error branch prints nothing)
BeatmapProcessSilent(i, ok) ==
    /\ Running
    /\ i \in bm_todo
    /\ ok \/ faults < MaxFaults
    /\ faults' = IF ok THEN faults ELSE faults + 1
    /\ bm_todo' = bm_todo \ {i}
    /\ LET item == Tagged(beatmaps)[i]
       IN IF ok
          THEN /\ bm_chan' = Append(bm_chan,
                      [db_beatmap |-> item.db_beatmap,
                       beatmap |-> ParsedFile(item.db_beatmap.beatmap_file_name),
                       is_main |-> item.is_main])
               /\ log' = log
          ELSE /\ bm_chan' = bm_chan
               /\ log' = log
    /\ UNCHANGED <<env, db, tx, links, dirs, pc, beatmaps, bm_open, req_chan,
                   req_open, hash_chan, hash_open, joined, commits, rng, sel_runs>>

\* BeatmapProcessor::start, one par_iter item: process() and its error branch
BeatmapProcess(i, ok) ==
    /\ Running
    /\ i \in bm_todo
    /\ ok \/ faults < MaxFaults
    /\ faults' = IF ok THEN faults ELSE faults + 1
    /\ bm_todo' = bm_todo \ {i}
    /\ LET item == Tagged(beatmaps)[i]
       IN IF ok
          THEN /\ bm_chan' = Append(bm_chan,
                      [db_beatmap |-> item.db_beatmap,
                       beatmap |-> ParsedFile(item.db_beatmap.beatmap_file_name),
                       is_main |-> item.is_main])
               /\ log' = log
          ELSE /\ bm_chan' = bm_chan
               /\ log' = log \cup {<<"process", item.db_beatmap.beatmap_id>>}
    /\ UNCHANGED <<env, db, tx, links, dirs, pc, beatmaps, bm_open, req_chan,
                   req_open, hash_chan, hash_open, joined, commits, rng, sel_runs>>

\* (first a variant in which the sender is dropped with items left to run)
BeatmapPoolDoneEarly ==
    /\ Running
    /\ bm_open
    /\ bm_open' = FALSE
    /\ UNCHANGED <<env, db, tx, links, dirs, pc, beatmaps, bm_todo, bm_chan, req_chan,
                   req_open, hash_chan, hash_open, joined, commits, log, rng, faults, sel_runs>>

\* for_each_with has run every item: the sender is dropped, the thread ends
BeatmapPoolDone ==
    /\ Running
    /\ bm_todo = {}
    /\ bm_open
    /\ bm_open' = FALSE
    /\ UNCHANGED <<env, db, tx, links, dirs, pc, beatmaps, bm_todo, bm_chan, req_chan,
                   req_open, hash_chan, hash_open, joined, commits, log, rng, faults, sel_runs>>

\* (first a variant of the walk without the is_file test: a request for
\* every entry WalkDir yields)
WalkRequestsEveryEntry(ctx, beatmapset_info_id) ==
    LET folder == ctx.db_beatmap.folder_name
        files == Songs(folder)
    IN [i \in DOMAIN files |->
          [beatmap_id |-> ctx.db_beatmap.beatmap_id,
           beatmapset_id |-> ctx.db_beatmap.beatmap_set_id,
           folder_name |-> folder,
           file_name |-> ctx.db_beatmap.beatmap_file_name,
           beatmapset_info_id |-> beatmapset_info_id,
           stripped_path |-> files[i].rel,
           full_path |-> FullPath(folder, files[i].rel)]]

\* the HashRequests of one walk: one per regular file, in walk order
WalkRequests(ctx, beatmapset_info_id) ==
    LET folder == ctx.db_beatmap.folder_name
        files == SelectSeq(Songs(folder), LAMBDA e : e.kind = "file")
    IN [i \in DOMAIN files |->
          [beatmap_id |-> ctx.db_beatmap.beatmap_id,
           beatmapset_id |-> ctx.db_beatmap.beatmap_set_id,
           folder_name |-> folder,
           file_name |-> ctx.db_beatmap.beatmap_file_name,
           beatmapset_info_id |-> beatmapset_info_id,
           stripped_path |-> files[i].rel,
           full_path |-> FullPath(folder, files[i].rel)]]

\* whether insert_beatmap reaches the draw of the placeholder hash
Draws(t, ctx, failAt) ==
    LET d == insert_beatmap_difficulty(t, ctx.beatmap, failAt = 1)
        m == insert_beatmap_metadata(d.tx, ctx.beatmap, failAt = 2)
        found == RowsWhere(m.tx.BeatmapSetInfo,
                     LAMBDA r : SqlEq(r.OnlineBeatmapSetID, Some(ctx.db_beatmap.beatmap_set_id)))
    IN d.st = "ok" /\ m.st = "ok" /\ ShouldUpsert(found, ctx.is_main)

\* (first a variant of the iteration in which an Err of insert_beatmap is
\* returned with `?` instead of being printed)
InsertBeatmapsRecvErrReturns(failAt, checks, walk_ok) ==
    /\ pc = "insert_beatmaps"
    /\ bm_chan # << >>
    /\ LET ctx == Head(bm_chan)
           res == insert_beatmap(tx, ctx, RandomHash(rng + 1), checks, failAt)
       IN /\ rng' = IF Draws(tx, ctx, failAt) THEN rng + 1 ELSE rng
          /\ res.st = "err" => faults < MaxFaults
          /\ faults' = IF res.st = "err" THEN faults + 1 ELSE faults
          /\ CASE res.st = "panic" -> Abort("panic")
               [] res.st = "err" -> Abort("insert")
               [] res.st = "ok" /\ ~ctx.is_main ->
                    /\ tx' = res.tx
                    /\ bm_chan' = Tail(bm_chan)
                    /\ UNCHANGED <<pc, db, req_chan, log, bm_todo, hash_chan>>
               [] res.st = "ok" /\ ctx.is_main /\ walk_ok ->
                    /\ tx' = res.tx
                    /\ bm_chan' = Tail(bm_chan)
                    /\ req_chan' = req_chan \o WalkRequests(ctx, res.id)
                    /\ UNCHANGED <<pc, db, log, bm_todo, hash_chan>>
               [] OTHER -> Abort("walk")
    /\ UNCHANGED <<env, links, dirs, beatmaps, bm_open, req_open, hash_open, joined,
                   commits, sel_runs>>

\* insert_beatmaps, one iteration of `for beatmap in receiver`.
\* walk_ok = FALSE: WalkDir or strip_prefix yields an Err, which `?` returns.
InsertBeatmapsRecv(failAt, checks, walk_ok) ==
    /\ pc = "insert_beatmaps"
    /\ bm_chan # << >>
    /\ LET ctx == Head(bm_chan)
           res == insert_beatmap(tx, ctx, RandomHash(rng + 1), checks, failAt)
       IN /\ rng' = IF Draws(tx, ctx, failAt) THEN rng + 1 ELSE rng
          /\ res.st = "err" => faults < MaxFaults
          /\ faults' = IF res.st = "err" THEN faults + 1 ELSE faults
          /\ CASE res.st = "panic" -> Abort("panic")
               [] res.st = "err" ->
                    /\ tx' = res.tx
                    /\ log' = log \cup {<<"insert", ctx.db_beatmap.beatmap_id>>}
                    /\ bm_chan' = Tail(bm_chan)
                    /\ UNCHANGED <<pc, db, req_chan, bm_todo, hash_chan>>
               [] res.st = "ok" /\ ~ctx.is_main ->
                    /\ tx' = res.tx
                    /\ bm_chan' = Tail(bm_chan)
                    /\ UNCHANGED <<pc, db, req_chan, log, bm_todo, hash_chan>>
               [] res.st = "ok" /\ ctx.is_main /\ walk_ok ->
                    /\ tx' = res.tx
                    /\ bm_chan' = Tail(bm_chan)
                    /\ req_chan' = req_chan \o WalkRequests(ctx, res.id)
                    /\ UNCHANGED <<pc, db, log, bm_todo, hash_chan>>
               [] OTHER -> Abort("walk")
    /\ UNCHANGED <<env, links, dirs, beatmaps, bm_open, req_open, hash_open, joined,
                   commits, sel_runs>>

\* (first a variant of the loop end that does not wait for the senders)
InsertBeatmapsReturnOnEmpty ==
    /\ pc = "insert_beatmaps"
    /\ bm_chan = << >>
    /\ pc' = "insert_hashes"
    /\ req_open' = FALSE
    /\ UNCHANGED <<env, db, tx, links, dirs, beatmaps, bm_todo, bm_chan, bm_open,
                   req_chan, hash_chan, hash_open, joined, commits, log, rng, faults, sel_runs>>

\* (a variant of the loop end in which hash_sender outlives insert_beatmaps)
InsertBeatmapsReturnKeepsSender ==
    /\ pc = "insert_beatmaps"
    /\ bm_chan = << >>
    /\ ~bm_open
    /\ pc' = "insert_hashes"
    /\ UNCHANGED <<env, db, tx, links, dirs, beatmaps, bm_todo, bm_chan, bm_open, req_open,
                   req_chan, hash_chan, hash_open, joined, commits, log, rng, faults, sel_runs>>

\* the receiver loop ends: every sender is gone and the channel is empty;
\* returning drops hash_sender
InsertBeatmapsReturn ==
    /\ pc = "insert_beatmaps"
    /\ bm_chan = << >>
    /\ ~bm_open
    /\ pc' = "insert_hashes"
    /\ req_open' = FALSE
    /\ UNCHANGED <<env, db, tx, links, dirs, beatmaps, bm_todo, bm_chan, bm_open,
                   req_chan, hash_chan, hash_open, joined, commits, log, rng, faults, sel_runs>>

\* (a variant in which the pool's worker itself records the digest in
\* FileInfo)
HashProcessWritesFileInfo(i, ok) ==
    /\ Running
    /\ i \in DOMAIN req_chan
    /\ ok \/ faults < MaxFaults
    /\ faults' = IF ok THEN faults ELSE faults + 1
    /\ req_chan' = RemoveAt(req_chan, i)
    /\ IF ok
       THEN /\ hash_chan' = Append(hash_chan,
                   [request |-> req_chan[i], hash |-> hash_file(req_chan[i].full_path)])
            /\ tx' = InsertOrIgnoreFileInfo(tx, hash_file(req_chan[i].full_path))
            /\ log' = log
       ELSE /\ hash_chan' = hash_chan
            /\ tx' = tx
            /\ log' = log \cup {<<"hash", req_chan[i].full_path>>}
    /\ UNCHANGED <<env, db, links, dirs, pc, beatmaps, bm_todo, bm_chan, bm_open,
                   req_open, hash_open, joined, commits, rng, sel_runs>>

\* (first a variant in which a failed hash_file still sends a result, with
\* the digest of no bytes)
HashProcessErrSends(i, ok) ==
    /\ Running
    /\ i \in DOMAIN req_chan
    /\ ok \/ faults < MaxFaults
    /\ faults' = IF ok THEN faults ELSE faults + 1
    /\ req_chan' = RemoveAt(req_chan, i)
    /\ IF ok
       THEN /\ hash_chan' = Append(hash_chan,
                   [request |-> req_chan[i], hash |-> hash_file(req_chan[i].full_path)])
            /\ log' = log
       ELSE /\ hash_chan' = Append(hash_chan, [request |-> req_chan[i], hash |-> "e3b"])
            /\ log' = log \cup {<<"hash", req_chan[i].full_path>>}
    /\ UNCHANGED <<env, db, tx, links, dirs, pc, beatmaps, bm_todo, bm_chan, bm_open,
                   req_open, hash_open, joined, commits, rng, sel_runs>>

\* HashProcessor::start, one par_bridge item: the pool's workers take the
\* requests in channel order and finish them in any order
HashProcess(i, ok) ==
    /\ Running
    /\ i \in DOMAIN req_chan
    /\ ok \/ faults < MaxFaults
    /\ faults' = IF ok THEN faults ELSE faults + 1
    /\ req_chan' = RemoveAt(req_chan, i)
    /\ IF ok
       THEN /\ hash_chan' = Append(hash_chan,
                   [request |-> req_chan[i], hash |-> hash_file(req_chan[i].full_path)])
            /\ log' = log
       ELSE /\ hash_chan' = hash_chan
            /\ log' = log \cup {<<"hash", req_chan[i].full_path>>}
    /\ UNCHANGED <<env, db, tx, links, dirs, pc, beatmaps, bm_todo, bm_chan, bm_open,
                   req_open, hash_open, joined, commits, rng, sel_runs>>

\* (first a variant in which the pool ends as soon as it finds the
\* request channel empty)
HashPoolDoneOnEmpty ==
    /\ Running
    /\ req_chan = << >>
    /\ hash_open
    /\ hash_open' = FALSE
    /\ UNCHANGED <<env, db, tx, links, dirs, pc, beatmaps, bm_todo, bm_chan, bm_open,
                   req_chan, req_open, hash_chan, joined, commits, log, rng, faults, sel_runs>>

\* the request channel is closed and drained: the pool drops its senders
HashPoolDone ==
    /\ Running
    /\ req_chan = << >>
    /\ ~req_open
    /\ hash_open
    /\ hash_open' = FALSE
    /\ UNCHANGED <<env, db, tx, links, dirs, pc, beatmaps, bm_todo, bm_chan, bm_open,
                   req_chan, req_open, hash_chan, joined, commits, log, rng, faults, sel_runs>>

\* insert_hashes, one iteration of `for hash in receiver`; every `?` in it
\* returns the error from insert_hashes, and main returns it in turn
InsertHashesRecv(failAt) ==
    /\ pc = "insert_hashes"
    /\ hash_chan # << >>
    /\ LET h == Head(hash_chan)
           d == insert_hash_db(tx, h, failAt)
           f == insert_hash_fs(target_family, links, dirs, h, failAt)
       IN IF d.st = "err"
          THEN /\ Abort("statement")
               /\ UNCHANGED <<links, dirs>>
          ELSE IF f.st = "err"
          THEN /\ Abort(f.at)
               /\ links' = f.links
               /\ dirs' = f.dirs
          ELSE /\ tx' = d.tx
               /\ links' = f.links
               /\ dirs' = f.dirs
               /\ hash_chan' = Tail(hash_chan)
               /\ UNCHANGED <<pc, db, log, bm_todo, bm_chan, req_chan>>
    /\ UNCHANGED <<env, beatmaps, bm_open, req_open, hash_open, joined, commits, rng, faults,
                   sel_runs>>

\* a receiver loop that ends as soon as the channel is found empty
InsertHashesReturnOnEmpty ==
    /\ pc = "insert_hashes"
    /\ hash_chan = << >>
    /\ pc' = "join_beatmap"
    /\ UNCHANGED <<env, db, tx, links, dirs, beatmaps, bm_todo, bm_chan, bm_open,
                   req_chan, req_open, hash_chan, hash_open, joined, commits, log, rng,
                   faults, sel_runs>>

\* the receiver loop ends: the pool's senders are gone, the channel is empty
InsertHashesReturn ==
    /\ pc = "insert_hashes"
    /\ hash_chan = << >>
    /\ ~hash_open
    /\ pc' = "join_beatmap"
    /\ UNCHANGED <<env, db, tx, links, dirs, beatmaps, bm_todo, bm_chan, bm_open,
                   req_chan, req_open, hash_chan, hash_open, joined, commits, log, rng, faults,
                   sel_runs>>

\* beatmap_thread.join()
JoinBeatmap ==
    /\ pc = "join_beatmap"
    /\ ~bm_open
    /\ joined' = joined \cup {"beatmap_thread"}
    /\ pc' = "join_hash"
    /\ UNCHANGED <<env, db, tx, links, dirs, beatmaps, bm_todo, bm_chan, bm_open,
                   req_chan, req_open, hash_chan, hash_open, commits, log, rng, faults, sel_runs>>

\* hash_thread.join()
JoinHash ==
    /\ pc = "join_hash"
    /\ ~hash_open
    /\ joined' = joined \cup {"hash_thread"}
    /\ pc' = "commit"
    /\ UNCHANGED <<env, db, tx, links, dirs, beatmaps, bm_todo, bm_chan, bm_open,
                   req_chan, req_open, hash_chan, hash_open, commits, log, rng, faults, sel_runs>>

\* transaction.commit()
Commit ==
    /\ pc = "commit"
    /\ db' = tx
    /\ commits' = commits + 1
    /\ pc' = "done"
    /\ UNCHANGED <<env, tx, links, dirs, beatmaps, bm_todo, bm_chan, bm_open,
                   req_chan, req_open, hash_chan, hash_open, joined, log, rng, faults, sel_runs>>

\* transaction.commit() returns Err
CommitFail ==
    /\ pc = "commit"
    /\ Abort("commit")
    /\ UNCHANGED <<env, links, dirs, beatmaps, bm_open, req_open, hash_open, joined,
                   commits, rng, faults, sel_runs>>

Next ==
    \/ GetBeatmaps
    \/ GetBeatmapsFail
    \/ StartPipeline
    \/ \E i \in bm_todo, ok \in BOOLEAN : BeatmapProcess(i, ok)
    \/ BeatmapPoolDone
    \/ \E failAt \in BeatmapFailPoints, checks, walk_ok \in BOOLEAN :
          InsertBeatmapsRecv(failAt, checks, walk_ok)
    \/ InsertBeatmapsReturn
    \/ \E i \in DOMAIN req_chan, ok \in BOOLEAN : HashProcess(i, ok)
    \/ HashPoolDone
    \/ \E failAt \in HashFailPoints : InsertHashesRecv(failAt)
    \/ InsertHashesReturn
    \/ JoinBeatmap
    \/ JoinHash
    \/ Commit
    \/ CommitFail

Spec == Init /\ [][Next]_vars

(***************************************************************************)
(* The Selection Filter on its own: get_beatmaps applied to every legacy   *)
(* list of up to MaxLegacy entries (ids from 0, the "unsubmitted" id;      *)
(* groups 10 and u32::MAX; ids may repeat) against targets holding any set *)
(* of entry ids.  Between two calls a run commits EntryRows for some of    *)
(* the selected entries.                                                   *)
(***************************************************************************)
SelEntries ==
    {DbBeatmap(id, set, "f10", "a.osu", 4, 6364) : id \in 0..MaxEntryId, set \in {10, U32_MAX}}

\* the EntryRow a run commits for a selected entry
EntryRowsAdded(t, list, S) ==
    LET RECURSIVE Add(_, _)
        Add(d, i) ==
            IF i > Len(list) THEN d
            ELSE IF i \in S
                 THEN Add(insert_beatmap_info(d, ParsedFile(list[i].beatmap_file_name),
                                              list[i], 0, 0, 0, FALSE).tx, i + 1)
                 ELSE Add(d, i + 1)
    IN Add(t, 1)

SelInit ==
    /\ stable \in SeqOfAtMost(SelEntries, MaxLegacy)
    /\ \E ids \in SUBSET (1..MaxEntryId) :
          LET rows == [i \in 1..MaxEntryId |-> DbBeatmap(i, 10, "f10", "a.osu", 4, 6364)]
          IN db = EntryRowsAdded(EmptyDb, rows, ids)
    /\ db_before = db
    /\ tx = db
    /\ links = {}
    /\ dirs = {"files"}
    /\ fs_before = [links |-> links, dirs |-> dirs]
    /\ pc = "get_beatmaps"
    /\ beatmaps = << >>
    /\ bm_todo = {}
    /\ bm_chan = << >>
    /\ bm_open = TRUE
    /\ req_chan = << >>
    /\ req_open = TRUE
    /\ hash_chan = << >>
    /\ hash_open = TRUE
    /\ joined = {}
    /\ commits = 0
    /\ log = {}
    /\ target_family = "unix"
    /\ rng = 0
    /\ faults = 0
    /\ sel_runs = << >>

\* one call of get_beatmaps
SelGetBeatmaps ==
    /\ pc = "get_beatmaps"
    /\ Len(sel_runs) < MaxSelRuns
    /\ \E sel \in get_beatmaps(stable, db) :
        /\ beatmaps' = sel
        /\ sel_runs' = Append(sel_runs, [out |-> sel, target |-> db])
    /\ pc' = "done"
    /\ UNCHANGED <<env, db, tx, links, dirs, bm_todo, bm_chan, bm_open, req_chan,
                   req_open, hash_chan, hash_open, joined, commits, log, rng, faults>>

\* the rest of that run: it commits EntryRows for the selected entries at
\* the positions S (the others failed); then the tool is started again
SelRunCommits(S) ==
    /\ pc = "done"
    /\ db' = EntryRowsAdded(db, beatmaps, S)
    /\ tx' = db'
    /\ commits' = commits + 1
    /\ pc' = "get_beatmaps"
    /\ UNCHANGED <<env, links, dirs, beatmaps, bm_todo, bm_chan, bm_open, req_chan,
                   req_open, hash_chan, hash_open, joined, log, rng, faults, sel_runs>>

SelNext ==
    \/ SelGetBeatmaps
    \/ \E S \in SUBSET (DOMAIN beatmaps) : SelRunCommits(S)

SpecSel == SelInit /\ [][SelNext]_vars


(***************************************************************************)
(* Properties.                                                             *)
(***************************************************************************)
Count(s, e) == Cardinality({i \in DOMAIN s : s[i] = e})
EntryRowIds(d, id) == {i \in DOMAIN d.BeatmapInfo : d.BeatmapInfo[i].OnlineBeatmapID = Some(id)}

\* C1 (dedup invariant): in the transaction and in the committed database,
\* no two FileInfo rows hold the same digest, every BeatmapSetFileInfo row
\* references a FileInfo row, and each FileInfo row's ReferenceCount is the
\* number of BeatmapSetFileInfo rows that reference it.
DedupHolds(d) ==
    /\ \A i, j \in DOMAIN d.FileInfo : d.FileInfo[i].Hash = d.FileInfo[j].Hash => i = j
    /\ \A m \in DOMAIN d.BeatmapSetFileInfo :
          d.BeatmapSetFileInfo[m].FileInfoID \in DOMAIN d.FileInfo
    /\ \A i \in DOMAIN d.FileInfo :
          d.FileInfo[i].ReferenceCount =
              Cardinality({m \in DOMAIN d.BeatmapSetFileInfo :
                              d.BeatmapSetFileInfo[m].FileInfoID = i})
C1_DedupInvariant == DedupHolds(tx) /\ DedupHolds(db)

\* C1 witness: a committed run in which two hash results of one digest were
\* stored next to a second digest
C1_Witness ==
    /\ pc = "done"
    /\ \E i, j \in DOMAIN db.FileInfo :
          /\ db.FileInfo[i].ReferenceCount >= 2
          /\ db.FileInfo[j].ReferenceCount = 1
    /\ Len(db.BeatmapSetFileInfo) >= Len(db_before.BeatmapSetFileInfo) + 3

\* C2 (metadata reuse), as claimed: entries with equal metadata field tuples
\* share one BeatmapMetadata row, so no two rows of the table are equal.
C2_MetadataReuse ==
    \A i, j \in DOMAIN tx.BeatmapMetadata :
        tx.BeatmapMetadata[i] = tx.BeatmapMetadata[j] => i = j

\* C3 (primary-only force): a step that consumes a non-primary entry whose
\* group already has a BeatmapSetInfo row leaves that row as it is and the
\* EntryRow it inserts references that row; and a step that changes an
\* existing BeatmapSetInfo row consumes a primary entry.
C3_PrimaryOnlyForce ==
    [][ /\ (pc = "insert_beatmaps" /\ bm_chan # << >> /\ ~Head(bm_chan).is_main) =>
            \A i \in DOMAIN tx.BeatmapSetInfo :
               tx.BeatmapSetInfo[i].OnlineBeatmapSetID =
                   Some(Head(bm_chan).db_beatmap.beatmap_set_id) =>
                 /\ pc' # "aborted"
                 /\ tx'.BeatmapSetInfo[i] = tx.BeatmapSetInfo[i]
                 /\ Len(tx'.BeatmapInfo) > Len(tx.BeatmapInfo) =>
                       Last(tx'.BeatmapInfo).BeatmapSetInfoID = i
        /\ \A i \in DOMAIN tx.BeatmapSetInfo :
             (pc' # "aborted" /\ tx'.BeatmapSetInfo[i] # tx.BeatmapSetInfo[i]) =>
                 (pc = "insert_beatmaps" /\ bm_chan # << >> /\ Head(bm_chan).is_main)
      ]_vars

\* C3 witness: entry 2 (non-primary) was inserted after entry 1 had created
\* the row of group 10
C3_Witness ==
    /\ db_before = EmptyDb
    /\ \E i \in EntryRowIds(tx, 1), j \in EntryRowIds(tx, 2) :
          /\ i < j
          /\ tx.BeatmapInfo[j].BeatmapSetInfoID = tx.BeatmapInfo[i].BeatmapSetInfoID

\* C4 (selection filter): each list returned by get_beatmaps holds exactly
\* the legacy entries (with their multiplicity) whose id is not an entry id
\* of the target, is not 0, and whose group id is not u32::MAX, in
\* ascending order of entry id.
TargetEntryIds(d) ==
    UNION {Range(d.BeatmapInfo[i].OnlineBeatmapID) : i \in DOMAIN d.BeatmapInfo}
Wanted(e, target) ==
    /\ e.beatmap_id \notin TargetEntryIds(target)
    /\ e.beatmap_id # 0
    /\ e.beatmap_set_id # U32_MAX
C4_SelectionExact ==
    \A k \in DOMAIN sel_runs :
        LET r == sel_runs[k]
        IN /\ \A i \in 1..(Len(r.out) - 1) : r.out[i].beatmap_id <= r.out[i + 1].beatmap_id
           /\ \A e \in Range(stable) \cup Range(r.out) :
                 Count(r.out, e) = IF Wanted(e, r.target) THEN Count(stable, e) ELSE 0

\* C4 witness: a call that reordered two selected entries and left one out
C4_Witness ==
    \E k \in DOMAIN sel_runs :
        LET r == sel_runs[k]
        IN /\ Len(r.out) = 2
           /\ Len(stable) = 3
           /\ r.out[1].beatmap_id < r.out[2].beatmap_id
           /\ \E i, j \in DOMAIN stable : i < j /\ stable[i] = r.out[2] /\ stable[j] = r.out[1]

\* C5 (selection idempotence): when the target of a call holds an EntryRow
\* for every entry the previous call selected, the call returns the empty list.
C5_SelectionIdempotent ==
    \A k \in DOMAIN sel_runs :
        (k > 1 /\ \A i \in DOMAIN sel_runs[k - 1].out :
                     sel_runs[k - 1].out[i].beatmap_id \in TargetEntryIds(sel_runs[k].target))
            => sel_runs[k].out = << >>

\* C5 witness: a second call after a run that migrated all of a non-empty selection
C5_Witness ==
    /\ Len(sel_runs) = 2
    /\ Len(sel_runs[1].out) >= 2
    /\ \A i \in DOMAIN sel_runs[1].out :
          sel_runs[1].out[i].beatmap_id \in TargetEntryIds(sel_runs[2].target)
    /\ sel_runs[2].out = << >>

\* C6 (link idempotence): no path under files/ ever holds two objects, and
\* an insert_hashes iteration whose digest-derived path already holds an
\* object (made earlier in this run or by an earlier run, a symbolic link
\* whose target is gone included) raises no link error and leaves that one
\* object at the path as it was.
BothThreads == {"beatmap_thread", "hash_thread"}
Dangling(o) == o.kind = "symlink" /\ ~\E f \in StableFiles : f.path = o.target
C6_LinkIdempotent ==
    /\ [](\A o \in links : ObjectsAt(links, o.path) = {o})
    /\ [][ (pc = "insert_hashes" /\ hash_chan # << >>
              /\ ObjectsAt(links, LinkPath(Head(hash_chan).hash)) # {}) =>
             /\ ObjectsAt(links', LinkPath(Head(hash_chan).hash))
                   = ObjectsAt(links, LinkPath(Head(hash_chan).hash))
             /\ <<"fatal", "link">> \notin log'
         ]_vars

\* C6 witness: a committed unix run that stored one more mapping for a
\* digest whose link, made by an earlier run, dangles
C6_Witness ==
    /\ pc = "done"
    /\ \E o \in links :
          /\ Dangling(o)
          /\ \E i \in DOMAIN db.FileInfo :
                /\ LinkPath(db.FileInfo[i].Hash) = o.path
                /\ i \in DOMAIN db_before.FileInfo
                /\ db.FileInfo[i].ReferenceCount > db_before.FileInfo[i].ReferenceCount

\* C7 (one commit, after drain and join): the committed database changes
\* only in a commit; a run commits at most once; and the commit is taken
\* with the three channels closed and empty, insert_beatmaps and
\* insert_hashes returned, and both threads joined.
C7_CommitOnceAfterDrain ==
    /\ [](commits <= 1)
    /\ [][ (commits' # commits \/ (db' # db /\ pc' # "aborted")) =>
             /\ commits = 0 /\ commits' = 1
             /\ pc = "commit"
             /\ ~bm_open /\ bm_todo = {} /\ bm_chan = << >>
             /\ ~req_open /\ req_chan = << >>
             /\ ~hash_open /\ hash_chan = << >>
             /\ joined = BothThreads
         ]_vars

\* C7 witness: a committed run that stored mappings
C7_Witness ==
    /\ pc = "done"
    /\ commits = 1
    /\ joined = BothThreads
    /\ Len(db.BeatmapSetFileInfo) > Len(db_before.BeatmapSetFileInfo)

\* C8 (atomic visibility): until the commit, and for good in a run that
\* ends before it, the target database is the database the run started from.
C8_AtomicVisibility == pc # "done" => db = db_before

\* C8 witness: a run that wrote rows and made a link, and then failed in
\* insert_hashes or at the commit
C8_Witness ==
    /\ pc = "aborted"
    /\ log \cap {<<"fatal", "statement">>, <<"fatal", "commit">>} # {}
    /\ links # fs_before.links
    /\ db = db_before

\* C9 (abort leaves the content store), as claimed: after an abort the
\* directories and links under files/ are those the run started with.
C9_AbortLeavesStore ==
    pc = "aborted" => links = fs_before.links /\ dirs = fs_before.dirs

\* C10 (per-item errors are not fatal), as claimed: no run ends without
\* committing because of a walk or path-prefix error of one group or a failed
\* statement of one hash result.
C10_PerItemErrorsNotFatal ==
    pc = "aborted" => log \cap {<<"fatal", "walk">>, <<"fatal", "statement">>} = {}

\* C11 (a failed insert_beatmap is logged and skipped): an iteration of
\* insert_beatmaps in which insert_beatmap returns Err prints the error,
\* takes the entry off the channel, sends no hash request and stays in the
\* loop; and no hash request or hash result ever carries the id of an entry
\* whose insert failed.
InsertErrStep == pc = "insert_beatmaps" /\ bm_chan' # bm_chan /\ faults' = faults + 1
InsertFailedIds ==
    {beatmaps[i].beatmap_id : i \in {j \in DOMAIN beatmaps : <<"insert", beatmaps[j].beatmap_id>> \in log}}
C11_InsertErrorSkipped ==
    /\ [](\A id \in InsertFailedIds :
             /\ \A i \in DOMAIN req_chan : req_chan[i].beatmap_id # id
             /\ \A i \in DOMAIN hash_chan : hash_chan[i].request.beatmap_id # id)
    /\ [][ InsertErrStep =>
             /\ log' = log \cup {<<"insert", Head(bm_chan).db_beatmap.beatmap_id>>}
             /\ bm_chan' = Tail(bm_chan)
             /\ req_chan' = req_chan
             /\ pc' = "insert_beatmaps"
         ]_vars

\* C11 witness: the insert of entry 1 failed, entries 2 and 3 were inserted
\* after it and the run committed
C11_Witness ==
    /\ pc = "done"
    /\ db_before = EmptyDb
    /\ <<"insert", 1>> \in log
    /\ EntryRowIds(db, 1) = {}
    /\ EntryRowIds(db, 2) # {}
    /\ EntryRowIds(db, 3) # {}

\* C12 (link creation is best-effort), as claimed: no run ends without
\* committing because create_dir_all or the link of one hash result failed.
C12_LinkBestEffort ==
    pc = "aborted" => log \cap {<<"fatal", "create_dir_all">>, <<"fatal", "link">>} = {}

\* C13 (a decode failure drops the entry only): a pool item whose process()
\* returns Err prints the error, sends nothing, and leaves the other items to
\* be run and the main thread where it is; an entry whose decode failed is
\* never in the channel and never gets a BeatmapInfo row; and a committed run
\* has attempted every selected entry (each has its row or its error line).
ProcessErrStep == faults' = faults + 1 /\ bm_todo' # bm_todo
ProcessFailedIds ==
    {beatmaps[i].beatmap_id : i \in {j \in DOMAIN beatmaps : <<"process", beatmaps[j].beatmap_id>> \in log}}
C13_DecodeErrorDropsEntry ==
    /\ [](\A id \in ProcessFailedIds :
             /\ \A i \in DOMAIN bm_chan : bm_chan[i].db_beatmap.beatmap_id # id
             /\ EntryRowIds(tx, id) = {})
    /\ [](pc = "done" =>
             \A i \in DOMAIN beatmaps :
                 \/ beatmaps[i].beatmap_id \in ProcessFailedIds \cup InsertFailedIds
                 \/ EntryRowIds(db, beatmaps[i].beatmap_id) # {})
    /\ [][ ProcessErrStep =>
             /\ \E i \in bm_todo :
                   /\ bm_todo' = bm_todo \ {i}
                   /\ log' = log \cup {<<"process", beatmaps[i].beatmap_id>>}
             /\ bm_chan' = bm_chan
             /\ tx' = tx
             /\ pc' = pc
         ]_vars

\* C13 witness: the decode of entry 2 failed; entries 1 and 3 were migrated
\* and the run committed
C13_Witness ==
    /\ pc = "done"
    /\ db_before = EmptyDb
    /\ <<"process", 2>> \in log
    /\ EntryRowIds(db, 2) = {}
    /\ EntryRowIds(db, 1) # {}
    /\ EntryRowIds(db, 3) # {}

\* C14 (a hashing failure drops the file only): a pool item whose hash_file
\* returns Err prints the error, sends no result and changes neither the
\* tables nor the links, and the other requests stay in the channel; a file
\* whose hashing failed is never in the result channel; and FileInfo,
\* BeatmapSetFileInfo and the links change only for the result that
\* insert_hashes takes from that channel.
HashErrStep == faults' = faults + 1 /\ req_chan' # req_chan
HashFailedPaths == {f.path : f \in {g \in StableFiles : <<"hash", g.path>> \in log}}
C14_HashErrorDropsFile ==
    /\ [](\A i \in DOMAIN hash_chan : hash_chan[i].request.full_path \notin HashFailedPaths)
    /\ [][ HashErrStep =>
             /\ \E i \in DOMAIN req_chan :
                   /\ req_chan' = RemoveAt(req_chan, i)
                   /\ log' = log \cup {<<"hash", req_chan[i].full_path>>}
             /\ hash_chan' = hash_chan
             /\ tx' = tx /\ links' = links /\ dirs' = dirs
             /\ pc' = pc
         ]_vars
    /\ [][ (pc' # "aborted" /\ (tx'.FileInfo # tx.FileInfo
                                  \/ tx'.BeatmapSetFileInfo # tx.BeatmapSetFileInfo
                                  \/ links' # links)) =>
             /\ pc = "insert_hashes" /\ hash_chan # << >>
             /\ hash_chan' = Tail(hash_chan)
             /\ Len(tx'.BeatmapSetFileInfo) = Len(tx.BeatmapSetFileInfo) + 1
             /\ Last(tx'.BeatmapSetFileInfo).Filename = Head(hash_chan).request.stripped_path
             /\ \A o \in links' \ links : o.target = Head(hash_chan).request.full_path
         ]_vars

\* C14 witness: hashing b.osu failed; a.osu of the same folder was stored and
\* linked, nothing was stored for b.osu, and the run committed
C14_Witness ==
    /\ pc = "done"
    /\ db_before = EmptyDb
    /\ <<"hash", FullPath("f10", "b.osu")>> \in log
    /\ \E m \in DOMAIN db.BeatmapSetFileInfo : db.BeatmapSetFileInfo[m].Filename = "a.osu"
    /\ \A m \in DOMAIN db.BeatmapSetFileInfo : db.BeatmapSetFileInfo[m].Filename # "b.osu"
    /\ FileInfoIds(db, "a1e") = {}
    /\ ObjectsAt(links, LinkPath("a1f")) # {}
    /\ ObjectsAt(links, LinkPath("a1e")) = {}

(***************************************************************************)
(* The Entry Processing Pool on its own: get_beatmaps and the pool applied *)
(* to every legacy list of up to MaxLegacy entries with ids 1..MaxEntryId  *)
(* in the groups 10 and 20 (ids and groups may repeat), on a fresh target. *)
(***************************************************************************)
TagEntries ==
    {DbBeatmap(id, set, IF set = 10 THEN "f10" ELSE "f20", "a.osu", 4, 6364) :
        id \in 1..MaxEntryId, set \in {10, 20}}

TagInit ==
    /\ stable \in SeqOfAtMost(TagEntries, MaxLegacy)
    /\ target_family = "unix"
    /\ db = EmptyDb
    /\ links = {}
    /\ dirs = {"files"}
    /\ db_before = db
    /\ fs_before = [links |-> links, dirs |-> dirs]
    /\ tx = db
    /\ pc = "get_beatmaps"
    /\ beatmaps = << >>
    /\ bm_todo = {}
    /\ bm_chan = << >>
    /\ bm_open = TRUE
    /\ req_chan = << >>
    /\ req_open = TRUE
    /\ hash_chan = << >>
    /\ hash_open = TRUE
    /\ joined = {}
    /\ commits = 0
    /\ log = {}
    /\ rng = 0
    /\ faults = 0
    /\ sel_runs = << >>

TagNext ==
    \/ GetBeatmaps
    \/ StartPipeline
    \/ \E i \in bm_todo, ok \in BOOLEAN : BeatmapProcess(i, ok)
    \/ BeatmapPoolDone

SpecTag == TagInit /\ [][TagNext]_vars

(***************************************************************************)
(* The two-entry scenario: osu!.db holds entries 2 and 1 of group 10 only  *)
(* (folder f10: a.osu with digest a1f, b.osu with digest a1e; both files   *)
(* decode to the same metadata), and the target is a fresh client.db.      *)
(***************************************************************************)
ScenarioLibrary == << Library[2], Library[3] >>

ScenarioInit ==
    /\ stable = ScenarioLibrary
    /\ target_family \in {"unix", "windows"}
    /\ db = EmptyDb
    /\ links = {}
    /\ dirs = {"files"}
    /\ db_before = db
    /\ fs_before = [links |-> links, dirs |-> dirs]
    /\ tx = db
    /\ pc = "get_beatmaps"
    /\ beatmaps = << >>
    /\ bm_todo = {}
    /\ bm_chan = << >>
    /\ bm_open = TRUE
    /\ req_chan = << >>
    /\ req_open = TRUE
    /\ hash_chan = << >>
    /\ hash_open = TRUE
    /\ joined = {}
    /\ commits = 0
    /\ log = {}
    /\ rng = 0
    /\ faults = 0
    /\ sel_runs = << >>

SpecScenario == ScenarioInit /\ [][Next]_vars

\* The scenario on a unix target with the threads scheduled: whenever some
\* thread can take a step (the main thread, a pool worker, a pool's exit), a
\* step is eventually taken.  This is the weakest scheduling assumption; a
\* step that fails may always be taken in place of the one that succeeds.
ScenarioLiveInit == ScenarioInit /\ target_family = "unix"
SpecScenarioLive == ScenarioLiveInit /\ [][Next]_vars /\ WF_vars(Next)

\* C15 (two-entry scenario), as claimed: every run of the scenario without a
\* failure ends with one BeatmapSetInfo row (group 10), one BeatmapMetadata
\* row, two BeatmapDifficulty rows, two BeatmapInfo rows (ids 1 and 2), two
\* FileInfo rows of ReferenceCount 1, two BeatmapSetFileInfo rows, and the
\* Hash of entry 1 equal to the digest of a.osu.
ScenarioRowsBut(metadata_rows) ==
    /\ Len(db.BeatmapSetInfo) = 1
    /\ db.BeatmapSetInfo[1].OnlineBeatmapSetID = Some(10)
    /\ Len(db.BeatmapMetadata) = metadata_rows
    /\ Len(db.BeatmapDifficulty) = 2
    /\ Len(db.BeatmapInfo) = 2
    /\ EntryRowIds(db, 1) # {} /\ EntryRowIds(db, 2) # {}
    /\ Len(db.FileInfo) = 2
    /\ \A i \in DOMAIN db.FileInfo : db.FileInfo[i].ReferenceCount = 1
    /\ Len(db.BeatmapSetFileInfo) = 2
    /\ \A i \in EntryRowIds(db, 1) : db.BeatmapInfo[i].Hash = Some("a1f")
C15_TwoEntryScenario == (pc = "done" /\ log = {}) => ScenarioRowsBut(1)

\* C16 (a run only adds entries): every BeatmapInfo, BeatmapDifficulty and
\* BeatmapMetadata row the target held before the run is, with all its
\* columns (the Hash of BeatmapInfo included), in the transaction and in the
\* committed database at every point of the run.
KeepsRowsOf(d, table) ==
    /\ Len(d[table]) >= Len(db_before[table])
    /\ \A i \in DOMAIN db_before[table] : d[table][i] = db_before[table][i]
C16_OnlyAddsEntries ==
    \A table \in {"BeatmapInfo", "BeatmapDifficulty", "BeatmapMetadata"} :
        KeepsRowsOf(tx, table) /\ KeepsRowsOf(db, table)

\* C16 witness: a committed run on a target that held an entry with online
\* id and one without; the run added entries and back-filled a Hash
C16_Witness ==
    /\ pc = "done"
    /\ \E i, j \in DOMAIN db_before.BeatmapInfo :
          /\ db_before.BeatmapInfo[i].OnlineBeatmapID = None
          /\ db_before.BeatmapInfo[j].OnlineBeatmapID # None
    /\ \E i \in DOMAIN db.BeatmapInfo :
          /\ i > Len(db_before.BeatmapInfo)
          /\ db.BeatmapInfo[i].Hash # None

\* C17 (reference counting of one hash result): an insert_hashes iteration
\* that completes creates the FileInfo row of a new digest with
\* ReferenceCount 0, raises the ReferenceCount of the result's digest by
\* exactly 1, appends exactly one BeatmapSetFileInfo row (referencing that
\* FileInfo row) and leaves every other FileInfo row as it was; and no step
\* lowers a ReferenceCount, in the running transaction or in the committed
\* database.
RefCount(d, hash) ==
    IF FileInfoIds(d, hash) = {} THEN 0
    ELSE d.FileInfo[Min(FileInfoIds(d, hash))].ReferenceCount
HashResultStored ==
    pc = "insert_hashes" /\ pc' = "insert_hashes" /\ hash_chan # << >> /\ hash_chan' = Tail(hash_chan)
NeverLowered(d, e) ==
    \A i \in DOMAIN d.FileInfo :
        /\ i \in DOMAIN e.FileInfo
        /\ e.FileInfo[i].Hash = d.FileInfo[i].Hash
        /\ e.FileInfo[i].ReferenceCount >= d.FileInfo[i].ReferenceCount
C17_ReferenceCountStep ==
    /\ [][ HashResultStored =>
             LET hash == Head(hash_chan).hash
             IN /\ FileInfoIds(tx, hash) = {} =>
                      /\ Len(tx'.FileInfo) = Len(tx.FileInfo) + 1
                      /\ Last(InsertOrIgnoreFileInfo(tx, hash).FileInfo)
                             = [Hash |-> hash, ReferenceCount |-> 0]
                /\ FileInfoIds(tx, hash) # {} => Len(tx'.FileInfo) = Len(tx.FileInfo)
                /\ RefCount(tx', hash) = RefCount(tx, hash) + 1
                /\ \A i \in DOMAIN tx.FileInfo :
                      tx.FileInfo[i].Hash # hash => tx'.FileInfo[i] = tx.FileInfo[i]
                /\ Len(tx'.BeatmapSetFileInfo) = Len(tx.BeatmapSetFileInfo) + 1
                /\ Last(tx'.BeatmapSetFileInfo).FileInfoID \in FileInfoIds(tx', hash)
         ]_vars
    /\ [][ (pc' # "aborted" => NeverLowered(tx, tx')) /\ NeverLowered(db, db') ]_vars

\* C17 witness: a committed run that created a FileInfo row (one mapping)
\* and raised the ReferenceCount of a digest the target already held
C17_Witness ==
    /\ pc = "done"
    /\ \E i \in DOMAIN db.FileInfo :
          i > Len(db_before.FileInfo) /\ db.FileInfo[i].ReferenceCount = 1
    /\ \E i \in DOMAIN db_before.FileInfo :
          db.FileInfo[i].ReferenceCount > db_before.FileInfo[i].ReferenceCount

\* C18 (hash requests come from inserted primary entries only): the request
\* channel grows only in an insert_beatmaps iteration on the first selected
\* entry of a group, in which that entry's BeatmapInfo row is inserted, and
\* the requests added carry that entry, its group and the ID of the group's
\* BeatmapSetInfo row; so every request, every hash result and every
\* BeatmapSetFileInfo row written by the run references a BeatmapSetInfo row
\* of the transaction.
PrimaryIdOf(group) ==
    beatmaps[Min({i \in DOMAIN beatmaps : beatmaps[i].beatmap_set_id = group})].beatmap_id
SetRowIds(d, group) ==
    {i \in DOMAIN d.BeatmapSetInfo : d.BeatmapSetInfo[i].OnlineBeatmapSetID = Some(group)}
RequestsSent == Len(req_chan') > Len(req_chan)
C18_RequestsFromPrimaryOnly ==
    /\ [](/\ \A i \in DOMAIN req_chan :
                req_chan[i].beatmapset_info_id \in SetRowIds(tx, req_chan[i].beatmapset_id)
          /\ \A i \in DOMAIN hash_chan :
                hash_chan[i].request.beatmapset_info_id
                    \in SetRowIds(tx, hash_chan[i].request.beatmapset_id)
          /\ \A m \in DOMAIN tx.BeatmapSetFileInfo :
                tx.BeatmapSetFileInfo[m].BeatmapSetInfoID \in DOMAIN tx.BeatmapSetInfo)
    /\ [][ RequestsSent =>
             /\ pc = "insert_beatmaps" /\ pc' = "insert_beatmaps" /\ bm_chan # << >>
             /\ LET e == Head(bm_chan).db_beatmap
                IN /\ e.beatmap_id = PrimaryIdOf(e.beatmap_set_id)
                   /\ e.beatmap_id \notin InsertFailedIds'
                   /\ EntryRowIds(tx, e.beatmap_id) = {}
                   /\ EntryRowIds(tx', e.beatmap_id) # {}
                   /\ \A i \in (Len(req_chan) + 1)..Len(req_chan') :
                         /\ req_chan'[i].beatmap_id = e.beatmap_id
                         /\ req_chan'[i].beatmapset_id = e.beatmap_set_id
                         /\ req_chan'[i].beatmapset_info_id
                                \in SetRowIds(tx', e.beatmap_set_id)
         ]_vars

\* C18 witness: the insert of entry 1 (primary of group 10) failed, entry 2
\* was inserted without a walk, and the committed run stored the files of
\* group 20 only
C18_Witness ==
    /\ pc = "done"
    /\ db_before = EmptyDb
    /\ 1 \in InsertFailedIds
    /\ EntryRowIds(db, 2) # {}
    /\ db.BeatmapSetFileInfo # << >>
    /\ \A m \in DOMAIN db.BeatmapSetFileInfo :
          db.BeatmapSetFileInfo[m].BeatmapSetInfoID \in SetRowIds(db, 20)

\* C19 (non-primary entries come after their group's walk), as claimed:
\* whenever the entry insert_beatmaps is about to take from the channel is
\* non-primary, hash requests of its group have been emitted (they are in
\* the request channel, in the result channel, or their hashing failed).
GroupRequestsEmitted(e) ==
    \/ \E i \in DOMAIN req_chan : req_chan[i].beatmapset_id = e.beatmap_set_id
    \/ \E i \in DOMAIN hash_chan : hash_chan[i].request.beatmapset_id = e.beatmap_set_id
    \/ \E f \in StableFiles :
          /\ f.path \in HashFailedPaths
          /\ \E r \in DOMAIN Songs(e.folder_name) :
                f.path = FullPath(e.folder_name, Songs(e.folder_name)[r].rel)
C19_NonPrimaryAfterWalk ==
    (pc = "insert_beatmaps" /\ bm_chan # << >> /\ ~Head(bm_chan).is_main)
        => GroupRequestsEmitted(Head(bm_chan).db_beatmap)

\* C20 (the inserter stages run one after the other): while insert_beatmaps
\* runs, FileInfo, BeatmapSetFileInfo and the links are as they were before
\* the run, whatever the hashing pool has produced; and a hash result is
\* taken from its channel only in insert_hashes, with every decoded entry
\* consumed and the entry channel closed (insert_beatmaps has returned and
\* dropped its request sender).
HashResultTaken ==
    /\ pc' # "aborted"
    /\ Len(hash_chan') < Len(hash_chan) \/ tx'.FileInfo # tx.FileInfo \/ links' # links
C20_StagesSequential ==
    /\ [](pc = "insert_beatmaps" =>
             /\ tx.FileInfo = db_before.FileInfo
             /\ tx.BeatmapSetFileInfo = db_before.BeatmapSetFileInfo
             /\ links = fs_before.links)
    /\ [][ HashResultTaken =>
             /\ pc = "insert_hashes"
             /\ bm_todo = {} /\ bm_chan = << >> /\ ~bm_open
             /\ ~req_open
         ]_vars

\* C20 witness: hash results wait in their channel while insert_beatmaps
\* still has a decoded entry to consume
C20_Witness ==
    /\ pc = "insert_beatmaps"
    /\ bm_chan # << >>
    /\ Len(hash_chan) >= 2
    /\ tx.BeatmapSetFileInfo = db_before.BeatmapSetFileInfo

\* C21 (the entry channel closes after every attempt): the decoded-entry
\* channel is closed only with no selected entry left to attempt; an entry
\* is attempted once (it leaves the pool's work for good and is in the
\* channel at most once, printed as failed or sent, never both); and once
\* insert_beatmaps has returned, every selected entry has been attempted
\* and every decoded entry has been consumed.
TimesInChannel(id) ==
    Cardinality({i \in DOMAIN bm_chan : bm_chan[i].db_beatmap.beatmap_id = id})
C21_EntryChannelClosesLast ==
    /\ [](~bm_open /\ pc # "aborted" => bm_todo = {})
    /\ [](\A i \in DOMAIN beatmaps :
             /\ TimesInChannel(beatmaps[i].beatmap_id) <= 1
             /\ i \in bm_todo => TimesInChannel(beatmaps[i].beatmap_id) = 0
             /\ beatmaps[i].beatmap_id \in ProcessFailedIds =>
                   i \notin bm_todo /\ TimesInChannel(beatmaps[i].beatmap_id) = 0
             /\ Cardinality(EntryRowIds(tx, beatmaps[i].beatmap_id)) <= 1)
    /\ [](pc \in {"insert_hashes", "join_beatmap", "join_hash", "commit", "done"} =>
             ~bm_open /\ bm_todo = {} /\ bm_chan = << >>)
    /\ [][ /\ (bm_open /\ ~bm_open') => bm_todo = {}
           /\ pc \notin {"spawn", "aborted"} => bm_todo' \subseteq bm_todo
           /\ ~bm_open => bm_chan' = bm_chan \/ bm_chan' = << >> \/ bm_chan' = SubSeq(bm_chan, 2, Len(bm_chan))
         ]_vars

\* C21 witness: insert_beatmaps has returned in a run in which one of three
\* selected entries failed to decode and the other two were sent
C21_Witness ==
    /\ pc = "insert_hashes"
    /\ Len(beatmaps) = 3
    /\ Cardinality(ProcessFailedIds) = 1
    /\ Len(tx.BeatmapInfo) = Len(db_before.BeatmapInfo) + 2

\* C22 (termination without deadlock): with the threads scheduled, every run
\* ends, committed unless a fatal error ended it; each receive loop ends
\* (insert_beatmaps and insert_hashes return or the run is aborted); and the
\* three channels are closed in a committed run.
RunEnded == pc \in {"done", "aborted"}
C22_EventuallyCommits ==
    /\ <>RunEnded
    /\ (pc = "insert_beatmaps") ~> (pc = "insert_hashes" \/ pc = "aborted")
    /\ (pc = "insert_hashes") ~> (pc = "join_beatmap" \/ pc = "aborted")
    /\ [](pc = "done" => commits = 1 /\ ~bm_open /\ ~req_open /\ ~hash_open)

\* C22 witness: a run without any error line that committed both selected
\* entries and both files of their folder
C22_Witness ==
    /\ pc = "done"
    /\ log = {}
    /\ Len(beatmaps) = 2
    /\ Len(db.BeatmapInfo) = 2
    /\ Len(db.BeatmapSetFileInfo) = 2

\* C23 (the hashing pool outlives an empty open channel): the hash-result
\* channel is closed only with the hash-request channel closed (insert_beatmaps
\* has returned) and every request taken; after that close no result is added.
C23_HashPoolWaitsForClose ==
    /\ [](~hash_open /\ pc # "aborted" =>
             /\ ~req_open /\ req_chan = << >>
             /\ pc \notin {"get_beatmaps", "spawn", "insert_beatmaps"})
    /\ [][ /\ (hash_open /\ ~hash_open') => (~req_open /\ req_chan = << >>)
           /\ ~hash_open => Len(hash_chan') <= Len(hash_chan)
         ]_vars

\* C23 witness: the request channel is empty and open, the pool has sent the
\* results of the first walk and has not ended, and a primary entry whose
\* walk will send more requests waits in the entry channel
C23_Witness ==
    /\ pc = "insert_beatmaps"
    /\ req_chan = << >> /\ req_open
    /\ hash_chan # << >> /\ hash_open
    /\ bm_chan # << >> /\ Head(bm_chan).is_main

\* C24 (single writer): every step that changes the transaction or the
\* committed database is a step of the main thread (no pool takes a step in
\* it): the metadata tables change only in insert_beatmaps, FileInfo,
\* BeatmapSetFileInfo and the Hash column only in insert_hashes, the
\* committed database only at the commit; and every step of a pool worker
\* (an entry attempted, a request taken, a pool's exit) leaves both as they were.
PoolStep ==
    /\ pc' # "aborted"
    /\ \/ bm_todo' # bm_todo /\ pc # "spawn"
       \/ Len(bm_chan') > Len(bm_chan)
       \/ Len(req_chan') < Len(req_chan)
       \/ Len(hash_chan') > Len(hash_chan)
       \/ bm_open' # bm_open
       \/ hash_open' # hash_open
MetadataTables == {"BeatmapDifficulty", "BeatmapMetadata", "BeatmapSetInfo"}
ContentTables == {"FileInfo", "BeatmapSetFileInfo"}
Hashes(d) == [i \in DOMAIN d.BeatmapInfo |-> d.BeatmapInfo[i].Hash]
C24_SingleWriter ==
    [][ /\ PoolStep => tx' = tx /\ db' = db /\ pc' = pc
        /\ pc' # "aborted" =>
              /\ (\E t \in MetadataTables : tx'[t] # tx[t]) => pc = "insert_beatmaps"
              /\ Len(tx'.BeatmapInfo) # Len(tx.BeatmapInfo) => pc = "insert_beatmaps"
              /\ (\E t \in ContentTables : tx'[t] # tx[t]) => pc = "insert_hashes"
              /\ (Len(tx'.BeatmapInfo) = Len(tx.BeatmapInfo) /\ Hashes(tx') # Hashes(tx))
                    => pc = "insert_hashes"
              /\ db' # db => pc = "commit"
      ]_vars

\* C24 witness: both pools still have work while the main thread has
\* written rows to the transaction
C24_Witness ==
    /\ pc = "insert_beatmaps"
    /\ bm_todo # {}
    /\ req_chan # << >>
    /\ Len(tx.BeatmapInfo) > Len(db_before.BeatmapInfo)

\* C25 (primary tagging): in the list BeatmapProcessor::start makes of the
\* selection, each group of the selection has exactly one entry with
\* is_main, it is the first entry of the group in the list, no selected
\* entry of the group has a smaller id, and every later entry of the group
\* is not is_main; the entries the pool sends carry these tags.
GroupIndices(list, group) == {i \in DOMAIN list : list[i].beatmap_set_id = group}
C25_PrimaryTagging ==
    LET tagged == Tagged(beatmaps)
    IN /\ \A i \in DOMAIN beatmaps :
             LET members == GroupIndices(beatmaps, beatmaps[i].beatmap_set_id)
                 mains == {j \in members : tagged[j].is_main}
             IN /\ mains = {Min(members)}
                /\ \A j \in members :
                      beatmaps[Min(members)].beatmap_id <= beatmaps[j].beatmap_id
                /\ tagged[i].db_beatmap = beatmaps[i]
       /\ \A k \in DOMAIN bm_chan :
             \E i \in DOMAIN beatmaps :
                 /\ bm_chan[k].db_beatmap = beatmaps[i]
                 /\ bm_chan[k].is_main = tagged[i].is_main

\* C25 witness: a selection of three entries in two groups, the second entry
\* of a group sent by the pool before the first
C25_Witness ==
    /\ Len(beatmaps) = 3
    /\ beatmaps[1].beatmap_set_id = beatmaps[3].beatmap_set_id
    /\ beatmaps[1].beatmap_set_id # beatmaps[2].beatmap_set_id
    /\ beatmaps[1].beatmap_id < beatmaps[3].beatmap_id
    /\ Len(bm_chan) = 2
    /\ ~bm_chan[1].is_main /\ bm_chan[1].db_beatmap = beatmaps[3]
    /\ bm_chan[2].is_main /\ bm_chan[2].db_beatmap = beatmaps[1]

\* C26 (foreign keys of a BeatmapInfo row): the row an insert_beatmaps
\* iteration appends to BeatmapInfo references the BeatmapDifficulty row
\* appended in the same iteration (holding this entry's difficulty), a
\* BeatmapMetadata row holding this entry's metadata, and the BeatmapSetInfo
\* row of the entry's group, whether that row was inserted in the iteration
\* or was there before; and every BeatmapInfo row of the transaction
\* references rows that exist.
EntryRowInserted ==
    /\ pc = "insert_beatmaps" /\ pc' = "insert_beatmaps" /\ bm_chan # << >>
    /\ Len(tx'.BeatmapInfo) = Len(tx.BeatmapInfo) + 1
C26_ForeignKeysValid ==
    /\ [](\A i \in DOMAIN tx.BeatmapInfo :
             /\ tx.BeatmapInfo[i].BaseDifficultyID \in DOMAIN tx.BeatmapDifficulty
             /\ tx.BeatmapInfo[i].MetadataID \in DOMAIN tx.BeatmapMetadata
             /\ tx.BeatmapInfo[i].BeatmapSetInfoID \in DOMAIN tx.BeatmapSetInfo)
    /\ [][ EntryRowInserted =>
             LET e == Head(bm_chan)
                 row == Last(tx'.BeatmapInfo)
             IN /\ row.OnlineBeatmapID = Some(e.db_beatmap.beatmap_id)
                /\ row.BaseDifficultyID = Len(tx.BeatmapDifficulty) + 1
                /\ Len(tx'.BeatmapDifficulty) = Len(tx.BeatmapDifficulty) + 1
                /\ tx'.BeatmapDifficulty[row.BaseDifficultyID].Difficulty = e.beatmap.difficulty
                /\ row.MetadataID \in DOMAIN tx'.BeatmapMetadata
                /\ tx'.BeatmapMetadata[row.MetadataID] = MetadataParams(e.beatmap)
                /\ row.BeatmapSetInfoID \in SetRowIds(tx', e.db_beatmap.beatmap_set_id)
         ]_vars

\* C26 witness: on a target that held the row of group 10, entry 2 was
\* inserted under that row and entry 3 under the row inserted for group 20
C26_Witness ==
    /\ SetRowIds(db_before, 10) # {} /\ SetRowIds(db_before, 20) = {}
    /\ \E i \in EntryRowIds(tx, 2) :
          tx.BeatmapInfo[i].BeatmapSetInfoID \in SetRowIds(db_before, 10)
    /\ \E i \in EntryRowIds(tx, 3) :
          /\ tx.BeatmapInfo[i].BeatmapSetInfoID \in SetRowIds(tx, 20)
          /\ tx.BeatmapInfo[i].BeatmapSetInfoID > Len(db_before.BeatmapSetInfo)

\* C27 (one BeatmapDifficulty row per entry), as claimed: the run has
\* created as many BeatmapDifficulty rows as BeatmapInfo rows, and every
\* BeatmapDifficulty row created in the run is referenced by exactly one
\* BeatmapInfo row.
CreatedIn(d, table) == {i \in DOMAIN d[table] : i > Len(db_before[table])}
C27_OneDifficultyPerEntry ==
    pc \in {"insert_beatmaps", "insert_hashes"} =>
        /\ Cardinality(CreatedIn(tx, "BeatmapDifficulty"))
               = Cardinality(CreatedIn(tx, "BeatmapInfo"))
        /\ \A k \in CreatedIn(tx, "BeatmapDifficulty") :
              Cardinality({i \in DOMAIN tx.BeatmapInfo :
                              tx.BeatmapInfo[i].BaseDifficultyID = k}) = 1

\* C28 (one BeatmapSetInfo row per group): at all times a group has at most
\* one BeatmapSetInfo row and every BeatmapInfo row of an entry of the group
\* references it; a step of the run that does not roll back keeps the row of
\* a group at the same ID, whichever of the group's entries arrives first.
Groups == {Library[i].beatmap_set_id : i \in DOMAIN Library}
GroupOf(beatmap_id) ==
    {Library[i].beatmap_set_id : i \in {k \in DOMAIN Library : Library[k].beatmap_id = beatmap_id}}
C28_OneSetRowPerGroup ==
    /\ [](\A g \in Groups : Cardinality(SetRowIds(tx, g)) <= 1)
    /\ [](\A i \in DOMAIN tx.BeatmapInfo : \A id \in 1..MaxLegacy :
             tx.BeatmapInfo[i].OnlineBeatmapID = Some(id) =>
                 \A g \in GroupOf(id) : tx.BeatmapInfo[i].BeatmapSetInfoID \in SetRowIds(tx, g))
    /\ [][pc' # "aborted" =>
             \A g \in Groups : SetRowIds(tx, g) \subseteq SetRowIds(tx', g)]_vars
\* both arrival orders have been processed and committed: the rows of group
\* 10's two entries reference one BeatmapSetInfo row, in one run the row of
\* the primary entry first, in another the row of the non-primary entry first
ArrivedInOrder(first, second) ==
    /\ commits = 1
    /\ SetRowIds(db_before, 10) = {}
    /\ \E i, j \in CreatedIn(db, "BeatmapInfo") :
          /\ i < j
          /\ db.BeatmapInfo[i].OnlineBeatmapID = Some(first)
          /\ db.BeatmapInfo[j].OnlineBeatmapID = Some(second)
          /\ db.BeatmapInfo[i].BeatmapSetInfoID = db.BeatmapInfo[j].BeatmapSetInfoID
          /\ SetRowIds(db, 10) = {db.BeatmapInfo[i].BeatmapSetInfoID}
BothOfGroup10 == {beatmaps[i].beatmap_id : i \in DOMAIN beatmaps} \cap {1, 2} = {1, 2}
C28_Witness ==
    BothOfGroup10 /\ ArrivedInOrder(3 - PrimaryIdOf(10), PrimaryIdOf(10))
C28_WitnessPrimaryFirst ==
    BothOfGroup10 /\ ArrivedInOrder(PrimaryIdOf(10), 3 - PrimaryIdOf(10))

\* C29 (back-fill of BeatmapInfo.Hash): an iteration of insert_hashes that
\* stores a hash result carries a request of the primary entry of its group;
\* it writes the file's digest into Hash of the rows whose OnlineBeatmapID is
\* that entry's id when the request's path relative to the group folder is
\* the entry's descriptor file name, and leaves Hash of every other row, and
\* of every row otherwise, as it was.
EmittedBy(request) ==
    {k \in DOMAIN beatmaps :
        /\ IsMain(beatmaps, k)
        /\ beatmaps[k].beatmap_id = request.beatmap_id
        /\ beatmaps[k].beatmap_set_id = request.beatmapset_id
        /\ beatmaps[k].beatmap_file_name = request.file_name}
C29_HashBackfill ==
    [][ HashResultStored =>
          LET h == Head(hash_chan)
              descriptor == h.request.stripped_path = h.request.file_name
          IN /\ EmittedBy(h.request) # {}
             /\ Len(tx'.BeatmapInfo) = Len(tx.BeatmapInfo)
             /\ \A i \in DOMAIN tx.BeatmapInfo :
                   tx'.BeatmapInfo[i].Hash =
                       IF descriptor /\ tx.BeatmapInfo[i].OnlineBeatmapID = Some(h.request.beatmap_id)
                       THEN Some(h.hash)
                       ELSE tx.BeatmapInfo[i].Hash
      ]_vars
\* a committed run of all three entries into an empty target: every file of
\* both folders has its mapping, among them sb/c.osu of folder f20; the rows
\* of the primaries carry the digest of their own descriptor file and the
\* row of group 10's non-primary entry carries none
HashOfEntry(d, id) == {d.BeatmapInfo[i].Hash : i \in EntryRowIds(d, id)}
C29_Witness ==
    /\ commits = 1
    /\ db_before = EmptyDb
    /\ BothOfGroup10
    /\ Len(db.BeatmapSetFileInfo) = 4
    /\ \E m \in DOMAIN db.BeatmapSetFileInfo : db.BeatmapSetFileInfo[m].Filename = "sb/c.osu"
    /\ HashOfEntry(db, 3) = {Some("a1f")}
    /\ HashOfEntry(db, PrimaryIdOf(10)) \in {{Some("a1f")}, {Some("a1e")}}
    /\ HashOfEntry(db, 3 - PrimaryIdOf(10)) = {None}

\* C30 (requests of one walk): an iteration of insert_beatmaps over a primary
\* entry whose insert_beatmap returned Ok and whose walk raised no error
\* appends to the request channel exactly one request per regular file
\* WalkDir yields under the group folder, at any depth, and none for a
\* directory; each carries the BeatmapSetInfo ID the entry's BeatmapInfo row
\* was written with, the file's path relative to the folder and its full path.
PrimaryWalked ==
    /\ pc = "insert_beatmaps" /\ pc' = "insert_beatmaps" /\ bm_chan # << >>
    /\ Len(bm_chan') = Len(bm_chan) - 1
    /\ Head(bm_chan).is_main
    /\ Head(bm_chan).db_beatmap.beatmap_id \notin InsertFailedIds'
EntriesOfKind(folder, kind) ==
    {Songs(folder)[i].rel : i \in {k \in DOMAIN Songs(folder) : Songs(folder)[k].kind = kind}}
C30_OneRequestPerFile ==
    [][ PrimaryWalked =>
          LET e == Head(bm_chan).db_beatmap
              new == (Len(req_chan) + 1)..Len(req_chan')
          IN /\ SubSeq(req_chan', 1, Len(req_chan)) = req_chan
             /\ \A path \in EntriesOfKind(e.folder_name, "file") :
                   Cardinality({i \in new : req_chan'[i].stripped_path = path}) = 1
             /\ \A i \in new :
                   /\ req_chan'[i].stripped_path \in EntriesOfKind(e.folder_name, "file")
                   /\ req_chan'[i].stripped_path \notin EntriesOfKind(e.folder_name, "dir")
                   /\ req_chan'[i].full_path
                          = "Songs/" \o e.folder_name \o "/" \o req_chan'[i].stripped_path
                   /\ req_chan'[i].beatmapset_info_id = Last(tx'.BeatmapInfo).BeatmapSetInfoID
                   /\ req_chan'[i].beatmapset_info_id \in SetRowIds(tx', e.beatmap_set_id)
      ]_vars
\* the walk of folder f20 has just been sent: one request for c.osu and one
\* for sb/c.osu in the sub-directory, none for the folder or for sb, both
\* carrying the ID of group 20's BeatmapSetInfo row
C30_Witness ==
    /\ pc = "insert_beatmaps"
    /\ Len(req_chan) = 2
    /\ {req_chan[i].stripped_path : i \in DOMAIN req_chan} = {"c.osu", "sb/c.osu"}
    /\ \A i \in DOMAIN req_chan :
          /\ req_chan[i].beatmapset_info_id \in SetRowIds(tx, 20)
          /\ req_chan[i].full_path \in {"Songs/f20/c.osu", "Songs/f20/sb/c.osu"}

(***************************************************************************)
(* Runs over one entry whose modification date ranges over the u64 values  *)
(* around the limits of the conversion: 0, either side of the epoch        *)
(* difference, the last product that fits i64 and the first that does not, *)
(* the last product that fits u64 and the first that does not, u64::MAX.   *)
(***************************************************************************)
ModificationDates ==
    {0, WIN_TO_UNIX_EPOCH - (I64_MAX \div NANOS_PER_TICK) - 1, WIN_TO_UNIX_EPOCH - 1,
     WIN_TO_UNIX_EPOCH, WIN_TO_UNIX_EPOCH + 1, 6364,
     WIN_TO_UNIX_EPOCH + (I64_MAX \div NANOS_PER_TICK),
     WIN_TO_UNIX_EPOCH + (I64_MAX \div NANOS_PER_TICK) + 1,
     WIN_TO_UNIX_EPOCH + ((U64_MODULUS - 1) \div NANOS_PER_TICK),
     WIN_TO_UNIX_EPOCH + ((U64_MODULUS - 1) \div NANOS_PER_TICK) + 1,
     U64_MODULUS - 1}

DateInit ==
    /\ \E mdate \in ModificationDates :
          stable = << DbBeatmap(1, 10, "f10", "a.osu", 4, mdate) >>
    /\ target_family = "unix"
    /\ db = EmptyDb
    /\ links = {}
    /\ dirs = {"files"}
    /\ db_before = db
    /\ fs_before = [links |-> links, dirs |-> dirs]
    /\ tx = db
    /\ pc = "get_beatmaps"
    /\ beatmaps = << >>
    /\ bm_todo = {}
    /\ bm_chan = << >>
    /\ bm_open = TRUE
    /\ req_chan = << >>
    /\ req_open = TRUE
    /\ hash_chan = << >>
    /\ hash_open = TRUE
    /\ joined = {}
    /\ commits = 0
    /\ log = {}
    /\ rng = 0
    /\ faults = 0
    /\ sel_runs = << >>

SpecDate == DateInit /\ [][Next]_vars

\* C31 (date conversion), as claimed: the run never ends by a panic, and the
\* DateAdded of every BeatmapSetInfo row written in the run is exactly
\* (t - WIN_TO_UNIX_EPOCH) * 100 for the modification date t of an entry of
\* the row's group, never a value reduced modulo 2^64.
ExactDates(group) ==
    {(stable[k].modification_date - WIN_TO_UNIX_EPOCH) * NANOS_PER_TICK :
        k \in {j \in DOMAIN stable : stable[j].beatmap_set_id = group}}
C31_DateExactOrEntryError ==
    /\ <<"fatal", "panic">> \notin log
    /\ \A i \in CreatedIn(tx, "BeatmapSetInfo") : \A g \in {10, 20} :
          tx.BeatmapSetInfo[i].OnlineBeatmapSetID = Some(g) =>
              tx.BeatmapSetInfo[i].DateAdded \in ExactDates(g)
\* the two ways it fails
C31_NeverPanics == <<"fatal", "panic">> \notin log
C31_NeverWrapped ==
    \A i \in CreatedIn(tx, "BeatmapSetInfo") :
        tx.BeatmapSetInfo[i].DateAdded \in ExactDates(10)

\* C32 (asset coverage), as claimed: once the run has committed, every group
\* that received a BeatmapInfo row in the run has, for each file of its
\* folder whose hashing did not fail, exactly one BeatmapSetFileInfo row
\* written in the run, also when the group's primary entry failed.
GroupFolder(g) == IF g = 10 THEN "f10" ELSE "f20"
GroupGotEntryRow(d, g) ==
    \E i \in CreatedIn(d, "BeatmapInfo") : d.BeatmapInfo[i].BeatmapSetInfoID \in SetRowIds(d, g)
MappingsCreated(d, g, path) ==
    {m \in CreatedIn(d, "BeatmapSetFileInfo") :
        /\ d.BeatmapSetFileInfo[m].BeatmapSetInfoID \in SetRowIds(d, g)
        /\ d.BeatmapSetFileInfo[m].Filename = path}
C32_AssetCoverage ==
    commits = 1 =>
        \A g \in Groups :
            GroupGotEntryRow(db, g) =>
                \A path \in EntriesOfKind(GroupFolder(g), "file") :
                    FullPath(GroupFolder(g), path) \notin HashFailedPaths =>
                        Cardinality(MappingsCreated(db, g, path)) = 1

\* C33 (a folder is recorded once), as claimed: in the committed database,
\* after an earlier run and the present one, no two BeatmapSetFileInfo rows
\* have the same BeatmapSetInfoID and Filename.
NoDuplicateMappings(d) ==
    \A m, n \in DOMAIN d.BeatmapSetFileInfo :
        (/\ d.BeatmapSetFileInfo[m].BeatmapSetInfoID = d.BeatmapSetFileInfo[n].BeatmapSetInfoID
         /\ d.BeatmapSetFileInfo[m].Filename = d.BeatmapSetFileInfo[n].Filename) => m = n
C33_FolderRecordedOnce == NoDuplicateMappings(db)

\* C34 (no item is lost): with the threads scheduled, every selected entry
\* leads to its BeatmapInfo row or to an error line for it (decode or
\* insert), and every hash request sent leads to its BeatmapSetFileInfo row
\* or to a hash error line, unless the run ends by a fatal error; no entry
\* gets two rows or a row and an error line, and no request gets two rows or
\* a row and an error line.
Selected(id) == \E i \in DOMAIN beatmaps : beatmaps[i].beatmap_id = id
EntryRowsCreated(d, id) == EntryRowIds(d, id) \cap CreatedIn(d, "BeatmapInfo")
EntrySettled(id) ==
    \/ pc = "aborted"
    \/ EntryRowsCreated(tx, id) # {}
    \/ id \in ProcessFailedIds \cup InsertFailedIds
Requested(path) == \E i \in DOMAIN req_chan : req_chan[i].stripped_path = path
RequestSettled(path) ==
    \/ pc = "aborted"
    \/ MappingsCreated(tx, 10, path) # {}
    \/ FullPath("f10", path) \in HashFailedPaths
C34_NoItemLost ==
    /\ \A id \in 1..2 : Selected(id) ~> EntrySettled(id)
    /\ \A path \in EntriesOfKind("f10", "file") : Requested(path) ~> RequestSettled(path)
    /\ [](\A id \in 1..2 :
             /\ Cardinality(EntryRowsCreated(tx, id)) <= 1
             /\ ~(EntryRowsCreated(tx, id) # {} /\ id \in ProcessFailedIds \cup InsertFailedIds)
             /\ ~(id \in ProcessFailedIds /\ id \in InsertFailedIds))
    /\ [](\A path \in EntriesOfKind("f10", "file") :
             /\ Cardinality(MappingsCreated(tx, 10, path)) <= 1
             /\ ~(MappingsCreated(tx, 10, path) # {}
                    /\ FullPath("f10", path) \in HashFailedPaths))
    /\ [](pc = "done" =>
             /\ \A id \in 1..2 : Selected(id) /\ EntrySettled(id)
             /\ \A path \in EntriesOfKind("f10", "file") :
                   MappingsCreated(tx, 10, path) # {}
                       \/ FullPath("f10", path) \in HashFailedPaths
                       \/ PrimaryIdOf(10) \in ProcessFailedIds \cup InsertFailedIds)
\* a committed run in which the hashing of b.osu failed: both entries have
\* their row, a.osu has its mapping, b.osu has its error line and no mapping
C34_Witness ==
    /\ commits = 1
    /\ EntryRowsCreated(db, 1) # {} /\ EntryRowsCreated(db, 2) # {}
    /\ MappingsCreated(db, 10, "a.osu") # {}
    /\ MappingsCreated(db, 10, "b.osu") = {}
    /\ FullPath("f10", "b.osu") \in HashFailedPaths

\* The run in which the pool delivers the entries in list order and nothing
\* fails: insert_beatmap applied to each tagged entry in turn.
RECURSIVE InsertInOrder(_, _, _)
InsertInOrder(t, items, k) ==
    IF k > Len(items) THEN t
    ELSE InsertInOrder(
             insert_beatmap(t, [db_beatmap |-> items[k].db_beatmap,
                                beatmap |-> ParsedFile(items[k].db_beatmap.beatmap_file_name),
                                is_main |-> items[k].is_main],
                            RandomHash(k), FALSE, 0).tx,
             items, k + 1)
ListOrderRun == InsertInOrder(db_before, Tagged(beatmaps), 1)
SetColumns(d, i) ==
    [MetadataID |-> d.BeatmapSetInfo[i].MetadataID,
     Status |-> d.BeatmapSetInfo[i].Status,
     DateAdded |-> d.BeatmapSetInfo[i].DateAdded]

\* C35 (order independence of the set row), as claimed: a committed run
\* without any error on a fresh target ends with the same MetadataID, Status
\* and DateAdded in each group's BeatmapSetInfo row as the run over the same
\* entries delivered in list order.
C35_OrderIndependent ==
    (commits = 1 /\ log = {} /\ db_before = EmptyDb) =>
        \A g \in Groups : \A i \in SetRowIds(db, g) : \A j \in SetRowIds(ListOrderRun, g) :
            SetColumns(db, i) = SetColumns(ListOrderRun, j)
\* what does hold in every arrival order: Status and DateAdded are the
\* primary's, and MetadataID is that of the primary's own BeatmapInfo row,
\* whose BeatmapMetadata row has the primary's metadata
PrimaryOf(g) == beatmaps[Min({i \in DOMAIN beatmaps : beatmaps[i].beatmap_set_id = g})]
C35_PrimaryDerived ==
    (commits = 1 /\ db_before = EmptyDb) =>
        \A g \in Groups : \A i \in SetRowIds(db, g) :
            EntryRowsCreated(db, PrimaryIdOf(g)) # {} =>
                /\ db.BeatmapSetInfo[i].Status = PrimaryOf(g).ranked_status - 3
                /\ db.BeatmapSetInfo[i].DateAdded
                       = (PrimaryOf(g).modification_date - WIN_TO_UNIX_EPOCH) * NANOS_PER_TICK
                /\ \A r \in EntryRowsCreated(db, PrimaryIdOf(g)) :
                       db.BeatmapSetInfo[i].MetadataID = db.BeatmapInfo[r].MetadataID
                /\ db.BeatmapMetadata[db.BeatmapSetInfo[i].MetadataID]
                       = MetadataParams(ParsedFile(PrimaryOf(g).beatmap_file_name))
C35_StatusAndDateIndependent ==
    (commits = 1 /\ log = {} /\ db_before = EmptyDb) =>
        \A g \in Groups : \A i \in SetRowIds(db, g) : \A j \in SetRowIds(ListOrderRun, g) :
            /\ db.BeatmapSetInfo[i].Status = ListOrderRun.BeatmapSetInfo[j].Status
            /\ db.BeatmapSetInfo[i].DateAdded = ListOrderRun.BeatmapSetInfo[j].DateAdded

====
